---- MODULE Spec2Model ----
(***************************************************************************)
(* Map-Tiler: a model of MapTiler.py (tile deduplication under the 8       *)
(* dihedral transforms, atlas packing, GID encoding, the fresh/merge map   *)
(* document writer and the ProcessInputs pipeline), with the older         *)
(* CreateTiledFiles.py and the GID reader of MapDataExtractor.py.          *)
(*                                                                         *)
(* An image is a record [size |-> <<w, h>>, px |-> [<<x, y>> |-> pixel]],  *)
(* x growing to the right and y growing downwards as in PIL.  A pixel is   *)
(* a number naming one RGBA value; 0 is the transparent pixel (0,0,0,0).   *)
(***************************************************************************)
EXTENDS Integers, Sequences, FiniteSets, TLC

VARIABLES
    \* ---- FindImageTransformation called on its own (SpecXform)
    im1org,             \* the candidate image
    im2org,             \* the reference image
    xfResult,           \* what FindImageTransformation returned
    xfPc,               \* "call" | "returned"
    \* ---- CreateTileset, one cell per step (SpecTileset)
    imageDict,          \* atlas: index -> image
    layerDict,          \* layer name -> (cell index -> <<atlas index, xForm>>)
    lastTileMatchIndex, \* the one-entry cache
    subimgIdx,          \* the next atlas index
    tsLayer,            \* position in layerFiles of the layer being read (1-based)
    tsIdx,              \* next cell index of that layer
    tsCells,            \* the cells read so far: <<layer position, idx, subimg>>
    tsPc,               \* "idle" | "begin" | "layer" | "cell" | "done"
    \* ---- the configuration CreateTileset reads (set by ProcessInputs)
    layerFiles,         \* sequence of input file names
    layerTiles,         \* cells per layer (layerWidth * layerHeight)
    tileWidth,
    tileHeight,
    \* ---- one cell written to and read back from a map document (SpecGID)
    gidCell,            \* the <<atlas index, xForm>> of the cell
    gidAttr,            \* the gid attribute written: a decimal string
    gidOut,             \* what ExtractTileIndex returned
    gidPc,              \* "write" | "written" | "readExtractor" | "readMapTiler"
    \* ---- ProcessInputs (Spec): the arguments
    mergeExisting,
    overwriteExisting,
    forceSquareTileset,
    fileList,           \* the <layerImage> arguments
    navLayers,          \* [floor, wall, portal, door]: a layer name, "" for None
    \* ---- the disk
    inputImage,         \* input file name -> image, or NoFile
    fsAtlas,            \* the file outTilesetFile: an image, or NoFile
    fsDoc,              \* the file outTiledFile: a document, or NoFile
    fsAtlas0,           \* the two files as ProcessInputs found them
    fsDoc0,
    \* ---- the fields ProcessInputs' steps set on self
    layerNames,
    imageSize,          \* <<imageWidth, imageHeight>>
    layerWidth,
    layerHeight,
    tilesetSize,        \* <<tilesetWidth, tilesetHeight>>
    createNavData,
    pc,                 \* the step ProcessInputs is about to run, "done" once it
                        \* returned True, "failed" once it returned False,
                        \* "crashed" once an exception left it
    failedIn,           \* the step that made it return False or raise
    run,                \* 1 in the first run of the script, 2 in a second one
    firstDoc,           \* the document the first run wrote, NoFile before
    \* ---- ExportTileset's canvas on its own (SpecPacker)
    pkTileCount,        \* len(self.imageDict)
    pkDims,             \* <<imageDimWidth, imageDimHeight>>
    pkPc,               \* "call" | "MapTiler" | "CreateTiledFiles"
    \* ---- FindNextPowerOfTwo, one iteration per step (SpecPow2)
    fnN,                \* the argument N
    fnK,                \* the local k
    fnPc,               \* "idle" | "loop" | "returned"
    \* ---- CreateTiledFiles.CreateTileset fed the same cells (SpecCache)
    ctfImageDict,       \* its self.imageDict
    ctfLayerDict,       \* its self.layerDict
    ctfSubimgIdx,       \* its subimgIdx
    \* ---- CreateNavData, the flood fill one cell per step (SpecNav)
    navWalkable,        \* the list walkable of CreateRoomsLayer
    navPortals,         \* the list portals, as a set
    navQueue,           \* the list queue
    navRoomTiles,       \* the list roomTiles
    navRooms,           \* the list rooms
    navPc,              \* "idle" | "CreateBlockingLayer" | "CreateWalkableLayer" |
                        \* "CreateRoomsLayer" | "fill" | "queue" | "filled" |
                        \* "done" | "crashed"
    navError            \* the exception that left CreateNavData, "" when none

None == 0 - 1

\* --------------------------------------------------------------------------
\* Bounds of the model
\* --------------------------------------------------------------------------
MaxColor == 2           \* pixels are 0..MaxColor
MaxLayers == 2          \* input layer files of a CreateTileset run
MaxLayerTiles == 2      \* cells per layer of a CreateTileset run
MaxAtlasIndex == 9999   \* atlas indices 0..MaxAtlasIndex are written as GIDs
MaxTileCount == 64      \* unique tiles handed to ExportTileset on its own
MaxPow2Arg == 10000     \* FindNextPowerOfTwo is called with 1..MaxPow2Arg
MaxWallTiles == 1       \* occupied cells of the wall layer of a CreateNavData run
MaxPortalTiles == 1     \* occupied cells of its portal layer

Pixels == 0..MaxColor

\* Tile shapes <<tileWidth, tileHeight>> the model draws from: square and not.
TileShapes == {<<1, 1>>, <<2, 1>>, <<1, 2>>, <<2, 2>>}

Pos(size) == (0..(size[1] - 1)) \X (0..(size[2] - 1))

ImagesOf(size) == { [size |-> size, px |-> f] : f \in [Pos(size) -> Pixels] }

AllImages == UNION { ImagesOf(s) : s \in TileShapes }

\* --------------------------------------------------------------------------
\* PIL: Image.new, Image.transpose, ImageChops.difference(...).getbbox()
\* --------------------------------------------------------------------------
\* Image.new('RGBA', (w, h), color)
ImageNew(size, color) == [size |-> size, px |-> [p \in Pos(size) |-> color]]

\* im.transpose(Image.FLIP_LEFT_RIGHT)
FLIP_LEFT_RIGHT(im) ==
    [size |-> im.size,
     px   |-> [p \in Pos(im.size) |-> im.px[<<im.size[1] - 1 - p[1], p[2]>>]]]

\* im.transpose(Image.ROTATE_90): counter-clockwise, the size is swapped
ROTATE_90(im) ==
    LET out == <<im.size[2], im.size[1]>>
    IN  [size |-> out,
         px   |-> [p \in Pos(out) |-> im.px[<<im.size[1] - 1 - p[2], p[1]>>]]]

\* im.transpose(Image.ROTATE_180)
ROTATE_180(im) ==
    [size |-> im.size,
     px   |-> [p \in Pos(im.size) |->
                  im.px[<<im.size[1] - 1 - p[1], im.size[2] - 1 - p[2]>>]]]

\* im.transpose(Image.ROTATE_270): clockwise quarter turn, the size is swapped
ROTATE_270(im) ==
    LET out == <<im.size[2], im.size[1]>>
    IN  [size |-> out,
         px   |-> [p \in Pos(out) |-> im.px[<<p[2], im.size[2] - 1 - p[1]>>]]]

Min(a, b) == IF a < b THEN a ELSE b

\* ImageChops.difference(a, b).getbbox() is None: the difference image covers
\* the common top-left region of the two images (the minimum of the sizes) and
\* has no bounding box when every pixel of it is zero in every band.
DifferenceIsEmpty(a, b) ==
    LET common == <<Min(a.size[1], b.size[1]), Min(a.size[2], b.size[2])>>
    IN  \A p \in Pos(common) : a.px[p] = b.px[p]

\* --------------------------------------------------------------------------
\* MapTiler: the transform tables
\* --------------------------------------------------------------------------
\* (xForm, mirrorX, rot90)
TRANSFORM_LIST ==
    << <<0, FALSE, 0>>, <<1, FALSE, 1>>, <<2, FALSE, 2>>, <<3, FALSE, 3>>,
       <<4, TRUE, 0>>,  <<5, TRUE, 1>>,  <<6, TRUE, 2>>,  <<7, TRUE, 3>> >>

\* A table with the flags of codes 1 and 3 exchanged.
TRANSFORM_DICT_Exchanged ==
    [xForm \in 0..7 |->
        CASE xForm = 0 -> <<FALSE, FALSE, FALSE>>
          [] xForm = 1 -> <<TRUE, FALSE, TRUE>>
          [] xForm = 2 -> <<TRUE, TRUE, FALSE>>
          [] xForm = 3 -> <<FALSE, TRUE, TRUE>>
          [] xForm = 4 -> <<TRUE, FALSE, FALSE>>
          [] xForm = 5 -> <<FALSE, FALSE, TRUE>>
          [] xForm = 6 -> <<FALSE, TRUE, FALSE>>
          [] xForm = 7 -> <<TRUE, TRUE, TRUE>>]

\* xForm -> (flipX, flipY, flipD)
TRANSFORM_DICT ==
    [xForm \in 0..7 |->
        CASE xForm = 0 -> <<FALSE, FALSE, FALSE>>
          [] xForm = 1 -> <<FALSE, TRUE, TRUE>>
          [] xForm = 2 -> <<TRUE, TRUE, FALSE>>
          [] xForm = 3 -> <<TRUE, FALSE, TRUE>>
          [] xForm = 4 -> <<TRUE, FALSE, FALSE>>
          [] xForm = 5 -> <<FALSE, FALSE, TRUE>>
          [] xForm = 6 -> <<FALSE, TRUE, FALSE>>
          [] xForm = 7 -> <<TRUE, TRUE, TRUE>>]

\* A loop body that turns the reference clockwise where the code turns it
\* counter-clockwise.
TransformedReference_Clockwise(im2org_, mirrorX, rot90) ==
    LET im2 == IF mirrorX THEN FLIP_LEFT_RIGHT(im2org_) ELSE im2org_
    IN  CASE rot90 = 1 -> ROTATE_270(im2)
          [] rot90 = 2 -> ROTATE_180(im2)
          [] rot90 = 3 -> ROTATE_90(im2)
          [] OTHER     -> im2

\* The body of FindImageTransformation's loop up to the comparison: the
\* reference mirrored when mirrorX, then rotated by rot90 quarter turns.
TransformedReference(im2org_, mirrorX, rot90) ==
    LET im2 == IF mirrorX THEN FLIP_LEFT_RIGHT(im2org_) ELSE im2org_
    IN  CASE rot90 = 1 -> ROTATE_90(im2)
          [] rot90 = 2 -> ROTATE_180(im2)
          [] rot90 = 3 -> ROTATE_270(im2)
          [] OTHER     -> im2

\* A loop body that compares without looking at the sizes.
EntryMatches_NoSizeTest(im1org_, im2org_, entry) ==
    DifferenceIsEmpty(im1org_, TransformedReference(im2org_, entry[2], entry[3]))

\* One pass of the loop for the entry `entry` of TRANSFORM_LIST: TRUE when the
\* loop returns at this entry.
EntryMatches(im1org_, im2org_, entry) ==
    LET im2 == TransformedReference(im2org_, entry[2], entry[3])
    IN  IF im1org_.size # im2.size
        THEN FALSE      \* Don't compare images that are not the same size.
        ELSE DifferenceIsEmpty(im1org_, im2)

\* A loop that returns at the last matching entry.
FindFrom_LastMatch(im1org_, im2org_, i) ==
    LET M == { n \in i..Len(TRANSFORM_LIST) : EntryMatches(im1org_, im2org_, TRANSFORM_LIST[n]) }
    IN  IF M = {} THEN None
        ELSE TRANSFORM_LIST[CHOOSE n \in M : \A m \in M : m <= n][1]

RECURSIVE FindFrom(_, _, _)
FindFrom(im1org_, im2org_, i) ==
    IF i > Len(TRANSFORM_LIST) THEN None
    ELSE IF EntryMatches(im1org_, im2org_, TRANSFORM_LIST[i])
         THEN TRANSFORM_LIST[i][1]
         ELSE FindFrom(im1org_, im2org_, i + 1)

\* An equivalence test that knows the identity only.
FindImageTransformation_IdentityOnly(im1org_, im2org_) ==
    IF im1org_ = im2org_ THEN 0 ELSE None

\* MapTiler.FindImageTransformation
FindImageTransformation(im1org_, im2org_) == FindFrom(im1org_, im2org_, 1)

\* CreateTiledFiles.FindImageTransformation: the same loop without the size
\* test, so the comparison runs on the common region of the two images.
RECURSIVE CTF_FindFrom(_, _, _)
CTF_FindFrom(im1org_, im2org_, i) ==
    IF i > Len(TRANSFORM_LIST) THEN None
    ELSE IF DifferenceIsEmpty(im1org_,
                TransformedReference(im2org_, TRANSFORM_LIST[i][2], TRANSFORM_LIST[i][3]))
         THEN TRANSFORM_LIST[i][1]
         ELSE CTF_FindFrom(im1org_, im2org_, i + 1)

CTF_FindImageTransformation(im1org_, im2org_) == CTF_FindFrom(im1org_, im2org_, 1)

\* --------------------------------------------------------------------------
\* Python integers beyond 31 bits: [hi |-> h, lo |-> l] is h * 2^29 + l,
\* 0 <= l < 2^29, so that bits 29, 30, 31 are the three low bits of hi.
\* --------------------------------------------------------------------------
LimbBase == 2^29

Big(h, l) == [hi |-> h, lo |-> l]

BigOf(n) == Big(n \div LimbBase, n % LimbBase)

\* a + b
BigAdd(a, b) ==
    Big(a.hi + b.hi + ((a.lo + b.lo) \div LimbBase), (a.lo + b.lo) % LimbBase)

RECURSIVE BitAnd(_, _)
BitAnd(a, b) ==
    IF a = 0 \/ b = 0 THEN 0
    ELSE (a % 2) * (b % 2) + 2 * BitAnd(a \div 2, b \div 2)

RECURSIVE BitOr(_, _)
BitOr(a, b) ==
    IF a = 0 THEN b ELSE IF b = 0 THEN a
    ELSE (IF a % 2 = 1 \/ b % 2 = 1 THEN 1 ELSE 0) + 2 * BitOr(a \div 2, b \div 2)

\* a & b
BigAnd(a, b) == Big(BitAnd(a.hi, b.hi), BitAnd(a.lo, b.lo))

\* a | b
BigOr(a, b) == Big(BitOr(a.hi, b.hi), BitOr(a.lo, b.lo))

\* a & ~b: the bits of a that are not bits of b
BigAndNot(a, b) == Big(a.hi - BitAnd(a.hi, b.hi), a.lo - BitAnd(a.lo, b.lo))

\* a - 1, for a > 0
BigPred(a) == IF a.lo > 0 THEN Big(a.hi, a.lo - 1) ELSE Big(a.hi - 1, LimbBase - 1)

\* str(n): the decimal digits of n, most significant first.  One long division
\* by ten: 2^29 = 10 * 53687091 + 2.
BigDiv10(a) ==
    LET rh == a.hi % 10
        t  == 2 * rh + a.lo
    IN  [q |-> Big(a.hi \div 10, rh * 53687091 + (t \div 10)), r |-> t % 10]

RECURSIVE Str(_)
Str(a) ==
    IF a.hi = 0 /\ a.lo < 10 THEN <<a.lo>>
    ELSE Append(Str(BigDiv10(a).q), BigDiv10(a).r)

\* 10 * a + d for a digit d.  With a.lo = q * 53687091 + r:
\* 10 * a.lo = q * 2^29 + (10 * r - 2 * q).
BigTimes10Plus(a, d) ==
    LET q == a.lo \div 53687091
        v == 10 * (a.lo % 53687091) - 2 * q + d
    IN  Big(10 * a.hi + q + (v \div LimbBase), v % LimbBase)

\* int(s) of a decimal string
RECURSIVE ParseInt(_)
ParseInt(s) ==
    IF Len(s) = 0 THEN Big(0, 0)
    ELSE BigTimes10Plus(ParseInt(SubSeq(s, 1, Len(s) - 1)), s[Len(s)])

\* --------------------------------------------------------------------------
\* MapTiler: GIDs
\* --------------------------------------------------------------------------
FLIPPED_HORIZONTALLY_FLAG == Big(4, 0)      \* 0x80000000
FLIPPED_VERTICALLY_FLAG == Big(2, 0)        \* 0x40000000
FLIPPED_DIAGONALLY_FLAG == Big(1, 0)        \* 0x20000000

\* An encoder that takes the diagonal flip for a vertical one.
UpdateGIDForRotation_DiagonalAsVertical(gid, xForm) ==
    LET flipX == TRANSFORM_DICT[xForm][1]
        flipY == TRANSFORM_DICT[xForm][2]
        flipD == TRANSFORM_DICT[xForm][3]
        g1 == IF flipX THEN BigAdd(gid, FLIPPED_HORIZONTALLY_FLAG) ELSE gid
        g2 == IF flipY THEN BigAdd(g1, FLIPPED_VERTICALLY_FLAG) ELSE g1
    IN  IF flipD THEN BigAdd(g2, FLIPPED_VERTICALLY_FLAG) ELSE g2

\* MapTiler.UpdateGIDForRotation
UpdateGIDForRotation(gid, xForm) ==
    LET flipX == TRANSFORM_DICT[xForm][1]
        flipY == TRANSFORM_DICT[xForm][2]
        flipD == TRANSFORM_DICT[xForm][3]
        g1 == IF flipX THEN BigAdd(gid, FLIPPED_HORIZONTALLY_FLAG) ELSE gid
        g2 == IF flipY THEN BigAdd(g1, FLIPPED_VERTICALLY_FLAG) ELSE g1
    IN  IF flipD THEN BigAdd(g2, FLIPPED_DIAGONALLY_FLAG) ELSE g2

\* MapTiler.ExtractTileIndex
MT_ExtractTileIndex(gid) ==
    BigAnd(BigAnd(BigAnd(gid, FLIPPED_DIAGONALLY_FLAG), FLIPPED_HORIZONTALLY_FLAG),
           FLIPPED_DIAGONALLY_FLAG)

\* MapDataExtractor.ExtractTileIndex
MDE_FLAGS == BigOr(BigOr(Big(4, 0), Big(2, 0)), Big(1, 0))

MDE_ExtractTileIndex(gid) == BigAndNot(gid, MDE_FLAGS)

\* A writer that forgets the + 1.
GidAttribute_NoOffset(cell) ==
    IF cell[1] = 0
    THEN <<0>>
    ELSE Str(UpdateGIDForRotation(BigOf(cell[1]), cell[2]))

\* CreateXMLLayer / MergeTiledFiles: the gid attribute of one cell
GidAttribute(cell) ==
    IF cell[1] = 0
    THEN <<0>>          \* This is the "empty" tile
    ELSE Str(UpdateGIDForRotation(BigOf(cell[1] + 1), cell[2]))

gidVars == <<gidCell, gidAttr, gidOut, gidPc>>

GidIdle ==
    /\ gidCell = <<0, 0>>
    /\ gidAttr = << >>
    /\ gidOut = Big(0, 0)
    /\ gidPc = "idle"

\* --------------------------------------------------------------------------
\* MapTiler.CreateTileset
\* --------------------------------------------------------------------------
\* d[k] = v on a Python dict
Put(d, k, v) == [x \in (DOMAIN d) \cup {k} |-> IF x = k THEN v ELSE d[x]]

\* os.path.splitext(os.path.split(fname)[1])[0] on the file names of the model
LayerNameOf(fname) ==
    CASE fname = "Floors.png"     -> "Floors"
      [] fname = "Walls.png"      -> "Walls"
      [] fname = "Objects.png"    -> "Objects"
      [] fname = "art/Floors.png" -> "Floors"
      [] fname = "Floors.jpg"     -> "Floors"
      [] fname = "Portals.png"    -> "Portals"
      [] OTHER                    -> fname

\* emptyTile = Image.new('RGBA', (tileWidth, tileHeight), (0, 0, 0, 0))
EmptyTile(w, h) == ImageNew(<<w, h>>, 0)

\* The state CreateTileset starts its loops with.
TilesetStart(w, h) ==
    [imageDict          |-> (0 :> EmptyTile(w, h)),
     layerDict          |-> << >>,
     lastTileMatchIndex |-> 0,
     subimgIdx          |-> 1]

\* for desIdx in self.imageDict.keys(): ... in ascending key order, skipping
\* the cached entry; <<desIdx, xForm>> of the first match, <<None, None>> when
\* the loop ends without one.
RECURSIVE ScanFrom(_, _, _, _)
ScanFrom(subimg, dict, last, desIdx) ==
    IF \A k \in DOMAIN dict : k < desIdx THEN <<None, None>>
    ELSE IF desIdx \notin DOMAIN dict \/ desIdx = last
         THEN ScanFrom(subimg, dict, last, desIdx + 1)
         ELSE LET xForm == FindImageTransformation(subimg, dict[desIdx])
              IN  IF xForm # None THEN <<desIdx, xForm>>
                  ELSE ScanFrom(subimg, dict, last, desIdx + 1)

\* A scan that never looks at entry 1.
ScanImageDict_SkipFirst(subimg, dict, last) ==
    IF 0 \in DOMAIN dict /\ last # 0 /\ FindImageTransformation(subimg, dict[0]) # None
    THEN <<0, FindImageTransformation(subimg, dict[0])>>
    ELSE ScanFrom(subimg, dict, last, 2)

ScanImageDict(subimg, dict, last) == ScanFrom(subimg, dict, last, 0)

\* A loop body that does not advance subimgIdx after an insertion.
CellStep_NoAdvance(st, lname, idx, subimg) ==
    LET hit  == FindImageTransformation(subimg, st.imageDict[st.lastTileMatchIndex])
        scan == ScanImageDict(subimg, st.imageDict, st.lastTileMatchIndex)
    IN  IF hit # None
        THEN [st EXCEPT !.layerDict[lname] = Put(@, idx, <<st.lastTileMatchIndex, hit>>)]
        ELSE IF scan[1] # None
        THEN [st EXCEPT !.layerDict[lname] = Put(@, idx, scan),
                        !.lastTileMatchIndex = scan[1]]
        ELSE [imageDict          |-> Put(st.imageDict, st.subimgIdx, subimg),
              layerDict          |-> [st.layerDict EXCEPT ![lname] = Put(@, idx, <<st.subimgIdx, 0>>)],
              lastTileMatchIndex |-> st.subimgIdx,
              subimgIdx          |-> st.subimgIdx]

\* A loop body that records code 0 on a cache hit.
CellStep_HitCodeZero(st, lname, idx, subimg) ==
    LET hit  == FindImageTransformation(subimg, st.imageDict[st.lastTileMatchIndex])
        scan == ScanImageDict(subimg, st.imageDict, st.lastTileMatchIndex)
    IN  IF hit # None
        THEN [st EXCEPT !.layerDict[lname] = Put(@, idx, <<st.lastTileMatchIndex, 0>>)]
        ELSE IF scan[1] # None
        THEN [st EXCEPT !.layerDict[lname] = Put(@, idx, scan),
                        !.lastTileMatchIndex = scan[1]]
        ELSE [imageDict          |-> Put(st.imageDict, st.subimgIdx, subimg),
              layerDict          |-> [st.layerDict EXCEPT ![lname] = Put(@, idx, <<st.subimgIdx, 0>>)],
              lastTileMatchIndex |-> st.subimgIdx,
              subimgIdx          |-> st.subimgIdx + 1]

\* The body of "for idx in xrange(self.layerTiles)" for one cell.
CellStep(st, lname, idx, subimg) ==
    LET hit  == FindImageTransformation(subimg, st.imageDict[st.lastTileMatchIndex])
        scan == ScanImageDict(subimg, st.imageDict, st.lastTileMatchIndex)
    IN  IF hit # None
        THEN [st EXCEPT !.layerDict[lname] = Put(@, idx, <<st.lastTileMatchIndex, hit>>)]
        ELSE IF scan[1] # None
        THEN [st EXCEPT !.layerDict[lname] = Put(@, idx, scan),
                        !.lastTileMatchIndex = scan[1]]
        ELSE [imageDict          |-> Put(st.imageDict, st.subimgIdx, subimg),
              layerDict          |-> [st.layerDict EXCEPT ![lname] = Put(@, idx, <<st.subimgIdx, 0>>)],
              lastTileMatchIndex |-> st.subimgIdx,
              subimgIdx          |-> st.subimgIdx + 1]

\* A layer head that also puts the cache back on the empty tile.
OpenLayer_ResetCache(st, lname) ==
    [st EXCEPT !.layerDict = Put(@, lname, << >>), !.lastTileMatchIndex = 0]

\* self.layerDict[lname] = {} at the head of a layer
OpenLayer(st, lname) == [st EXCEPT !.layerDict = Put(@, lname, << >>)]

\* The tiles a layer image of the CreateTileset runs is cut into.
TileA == [size |-> <<2, 2>>,
          px   |-> [p \in Pos(<<2, 2>>) |->
                      IF p = <<0, 0>> THEN 1 ELSE IF p = <<1, 0>> THEN 2 ELSE 0]]

TileB == [size |-> <<2, 2>>,
          px   |-> [p \in Pos(<<2, 2>>) |-> IF p[1] = p[2] THEN 1 ELSE 0]]

Palette == {EmptyTile(2, 2), TileA, ROTATE_90(TileA), TileB}

FileCatalog == <<"Floors.png", "Walls.png", "Objects.png">>

\* --------------------------------------------------------------------------
\* ProcessInputs: files, documents
\* --------------------------------------------------------------------------
OutTilesetFile == "tileset.png"
OutTiledFile == "tiled.tmx"

NoFile == [exists |-> FALSE]

AsFile(content) == [exists |-> TRUE, content |-> content]

\* "%s" % n and str(n) of a small number: its decimal digits
StrOf(n) == Str(BigOf(n))

\* im.crop((x0, y0, x1, y1)): pixels outside the image are transparent
Crop(im, box) ==
    LET out == <<box[3] - box[1], box[4] - box[2]>>
    IN  [size |-> out,
         px   |-> [p \in Pos(out) |->
                     LET q == <<box[1] + p[1], box[2] + p[2]>>
                     IN  IF q \in Pos(im.size) THEN im.px[q] ELSE 0]]

\* imgOut.paste(tile, (x0, y0, x1, y1)): the part inside the canvas is replaced
Paste(canvas, tile, box) ==
    [size |-> canvas.size,
     px   |-> [p \in Pos(canvas.size) |->
                 IF /\ box[1] <= p[1] /\ p[1] < box[3]
                    /\ box[2] <= p[2] /\ p[2] < box[4]
                 THEN tile.px[<<p[1] - box[1], p[2] - box[2]>>]
                 ELSE canvas.px[p]]]

\* MapTiler.LoadCroppedImage with the default offsets and insets (all 0)
LoadCroppedImage(image) == Crop(image, <<0, 0, image.size[1] - 0, image.size[2] - 0>>)

\* MapTiler.CalculateSubimageRect
CalculateSubimageRect(index, lw, tw, th) ==
    LET row == index \div lw
        col == index % lw
    IN  <<col * tw, row * th, col * tw + tw, row * th + th>>

\* MapTiler.ExtractSubimage
ExtractSubimage(im, index, lw, tw, th) == Crop(im, CalculateSubimageRect(index, lw, tw, th))

\* The whole of CreateTileset: every cell of every layer file, in order.
RECURSIVE CellsLoop(_, _, _, _, _)
CellsLoop(st, lname, img, idx, c) ==
    IF idx >= c.layerTiles THEN st
    ELSE CellsLoop(CellStep(st, lname, idx,
                            ExtractSubimage(img, idx, c.layerWidth, c.tileWidth, c.tileHeight)),
                   lname, img, idx + 1, c)

RECURSIVE LayersLoop(_, _, _, _)
LayersLoop(st, k, images, c) ==
    IF k > Len(c.layerFiles) THEN st
    ELSE LayersLoop(CellsLoop(OpenLayer(st, LayerNameOf(c.layerFiles[k])),
                              LayerNameOf(c.layerFiles[k]),
                              LoadCroppedImage(images[c.layerFiles[k]].content), 0, c),
                    k + 1, images, c)

CreateTileset(images, c) == LayersLoop(TilesetStart(c.tileWidth, c.tileHeight), 1, images, c)

\* MapTiler.FindNextPowerOfTwo(math.sqrt(tileCount)): k < sqrt(n) iff k * k < n
RECURSIVE PowerOfTwoFrom(_, _)
PowerOfTwoFrom(k, tileCount) ==
    IF k * k < tileCount THEN PowerOfTwoFrom(k * 2, tileCount) ELSE k

FindNextPowerOfTwoOfSqrt(tileCount) == PowerOfTwoFrom(1, tileCount)

\* ExportTileset lines 559-561: halve while the canvas is larger than the
\* tile count, then double once
RECURSIVE HalveHeight(_, _, _)
HalveHeight(imageDimHeight, imageDimWidth, tileCount) ==
    IF imageDimHeight * imageDimWidth > tileCount
    THEN HalveHeight(imageDimHeight \div 2, imageDimWidth, tileCount)
    ELSE imageDimHeight

\* A packer that leaves the height as the loop left it.
TilesetDims_NoDoubling(tileCount, forceSquare) ==
    LET imageDimWidth == FindNextPowerOfTwoOfSqrt(tileCount)
    IN  IF forceSquare
        THEN <<imageDimWidth, HalveHeight(imageDimWidth, imageDimWidth, tileCount)>>
        ELSE <<imageDimWidth, imageDimWidth>>

\* ExportTileset lines 551-561: <<imageDimWidth, imageDimHeight>> in tiles
TilesetDims(tileCount, forceSquare) ==
    LET imageDimWidth == FindNextPowerOfTwoOfSqrt(tileCount)
    IN  IF forceSquare
        THEN <<imageDimWidth, HalveHeight(imageDimWidth, imageDimWidth, tileCount) * 2>>
        ELSE <<imageDimWidth, imageDimWidth>>

\* CreateTiledFiles.ExportTileset lines 228-238: the same arithmetic
CTF_TilesetDims(tileCount, forceSquare) ==
    LET imageDimWidth == FindNextPowerOfTwoOfSqrt(tileCount)
        imageDimHeight == imageDimWidth
    IN  IF forceSquare
        THEN <<imageDimWidth, HalveHeight(imageDimHeight, imageDimWidth, tileCount) * 2>>
        ELSE <<imageDimWidth, imageDimHeight>>

\* A packer that counts columns where the code counts rows.
PasteCell_Transposed(idx, imageDimWidth) == <<idx \div imageDimWidth, idx % imageDimWidth>>

\* ExportTileset lines 575-576: <<col, row>> of the tile idx
PasteCell(idx, imageDimWidth) == <<idx % imageDimWidth, idx \div imageDimWidth>>

\* A packer that pastes every tile over the first cell.
RECURSIVE PasteTiles_FirstCell(_, _, _, _, _, _)
PasteTiles_FirstCell(imgOut, dict, idx, imageDimWidth, tw, th) ==
    IF idx >= Cardinality(DOMAIN dict) THEN imgOut
    ELSE PasteTiles_FirstCell(Paste(imgOut, dict[idx], <<0, 0, tw, th>>),
                              dict, idx + 1, imageDimWidth, tw, th)

\* ExportTileset lines 573-581: the canvas with every tile pasted
RECURSIVE PasteTiles(_, _, _, _, _, _)
PasteTiles(imgOut, dict, idx, imageDimWidth, tw, th) ==
    IF idx >= Cardinality(DOMAIN dict) THEN imgOut
    ELSE LET cell == PasteCell(idx, imageDimWidth)
             x0   == cell[1] * tw
             y0   == cell[2] * th
         IN  PasteTiles(Paste(imgOut, dict[idx], <<x0, y0, x0 + tw, y0 + th>>),
                        dict, idx + 1, imageDimWidth, tw, th)

TilesetImage(dict, forceSquare, tw, th) ==
    LET dims == TilesetDims(Cardinality(DOMAIN dict), forceSquare)
    IN  PasteTiles(ImageNew(<<dims[1] * tw, dims[2] * th>>, 0), dict, 0, dims[1], tw, th)

\* ---- the map document -----------------------------------------------------
\* A writer that walks the grid column by column.
XMLLayer_ColumnMajor(layerName, lDict, lw, lh) ==
    [name   |-> layerName,
     width  |-> StrOf(lw),
     height |-> StrOf(lh),
     data   |-> << [idx \in 1..(lw * lh) |->
                      GidAttribute(lDict[layerName][((idx - 1) % lh) * lw + ((idx - 1) \div lh)])] >>]

\* CreateXMLLayer
XMLLayer(layerName, lDict, lw, lh) ==
    [name   |-> layerName,
     width  |-> StrOf(lw),
     height |-> StrOf(lh),
     data   |-> << [idx \in 1..(lw * lh) |-> GidAttribute(lDict[layerName][idx - 1])] >>]

\* CreateTiledFile
CreateTiledFile(names, lDict, lw, lh, tw, th, tsSize) ==
    [version     |-> "1.0",
     orientation |-> "orthogonal",
     renderorder |-> "left-up",
     width       |-> StrOf(lw),
     height      |-> StrOf(lh),
     tilewidth   |-> StrOf(tw),
     tileheight  |-> StrOf(th),
     tilesets    |-> << [firstgid   |-> StrOf(1),
                         name       |-> "tileset",
                         tilewidth  |-> StrOf(tw),
                         tileheight |-> StrOf(th),
                         images     |-> << [source |-> OutTilesetFile,
                                            width  |-> StrOf(tsSize[1]),
                                            height |-> StrOf(tsSize[2])] >>] >>,
     layers      |-> [k \in 1..Len(names) |-> XMLLayer(names[k], lDict, lw, lh)]]

\* outLayers = { layer.attrib['name']:layer for layer in layers }: the position
\* of the layer the dictionary holds for lname (the last of that name), 0 if none
OutLayerAt(layers, lname) ==
    LET at == { k \in 1..Len(layers) : layers[k].name = lname }
    IN  IF at = {} THEN 0 ELSE CHOOSE k \in at : \A j \in at : j <= k

\* A merge that writes the gid of cell 0 into every cell of a known layer.
MergeLayer_FirstCellEverywhere(doc, layers, lname, lDict, lw, lh) ==
    LET k == OutLayerAt(layers, lname)
    IN  IF k = 0
        THEN [ok |-> TRUE,
              doc |-> [doc EXCEPT !.layers = Append(@, XMLLayer(lname, lDict, lw, lh))]]
        ELSE IF Len(doc.layers[k].data) = 0
        THEN [ok |-> FALSE, doc |-> doc]
        ELSE LET tiles == doc.layers[k].data[1]
             IN  IF \E idx \in 0..(Len(tiles) - 1) : idx \notin DOMAIN lDict[lname]
                 THEN [ok |-> FALSE, doc |-> doc]
                 ELSE [ok |-> TRUE,
                       doc |-> [doc EXCEPT !.layers[k].data[1] =
                                   [idx \in 1..Len(tiles) |->
                                       GidAttribute(lDict[lname][0])]]]

\* MergeTiledFiles, lines 652-669, for one name of self.layerNames; `layers`
\* are the layers outLayers was built from at line 647, before the loop.
\* [ok |-> FALSE] where the code raises (a layer without <data>, a layer with
\* more <tile> elements than the build has cells)
MergeLayer(doc, layers, lname, lDict, lw, lh) ==
    LET k == OutLayerAt(layers, lname)
    IN  IF k = 0
        THEN [ok |-> TRUE,
              doc |-> [doc EXCEPT !.layers = Append(@, XMLLayer(lname, lDict, lw, lh))]]
        ELSE IF Len(doc.layers[k].data) = 0
        THEN [ok |-> FALSE, doc |-> doc]
        ELSE LET tiles == doc.layers[k].data[1]
             IN  IF \E idx \in 0..(Len(tiles) - 1) : idx \notin DOMAIN lDict[lname]
                 THEN [ok |-> FALSE, doc |-> doc]
                 ELSE [ok |-> TRUE,
                       doc |-> [doc EXCEPT !.layers[k].data[1] =
                                   [idx \in 1..Len(tiles) |->
                                       GidAttribute(lDict[lname][idx - 1])]]]

RECURSIVE MergeFrom(_, _, _, _, _, _, _)
MergeFrom(doc, layers, names, n, lDict, lw, lh) ==
    IF n > Len(names) THEN [ok |-> TRUE, doc |-> doc]
    ELSE LET r == MergeLayer(doc, layers, names[n], lDict, lw, lh)
         IN  IF r.ok THEN MergeFrom(r.doc, layers, names, n + 1, lDict, lw, lh) ELSE r

\* A merge that keeps only the layers of the build.
MergeTiledFiles_BuildLayersOnly(doc, names, lDict, lw, lh) ==
    LET r == MergeFrom(doc, doc.layers, names, 1, lDict, lw, lh)
    IN  [r EXCEPT !.doc.layers =
            SelectSeq(@, LAMBDA l : \E n \in 1..Len(names) : names[n] = l.name)]

\* MergeTiledFiles
MergeTiledFiles(doc, names, lDict, lw, lh) ==
    MergeFrom(doc, doc.layers, names, 1, lDict, lw, lh)

\* A check that does not compare the heights.
CheckMergingFiles_NoHeight(doc, merge, lw, lh) ==
    IF ~doc.exists THEN TRUE
    ELSE IF ~merge THEN TRUE
    ELSE LET inRoot == doc.content
         IN  IF ParseInt(inRoot.width) # BigOf(lw) THEN FALSE
             ELSE IF Len(inRoot.tilesets) = 0 THEN FALSE
             ELSE IF Len(inRoot.tilesets) > 1 THEN FALSE
             ELSE IF Len(inRoot.tilesets[1].images) = 0 THEN FALSE
             ELSE IF Len(inRoot.tilesets[1].images) > 1 THEN FALSE
             ELSE IF inRoot.tilesets[1].images[1].source # OutTilesetFile THEN FALSE
             ELSE TRUE

\* CheckMergingFiles: what it returns for the file doc (NoFile when absent)
CheckMergingFiles(doc, merge, lw, lh) ==
    IF ~doc.exists THEN TRUE
    ELSE IF ~merge THEN TRUE
    ELSE LET inRoot == doc.content
         IN  IF ParseInt(inRoot.width) # BigOf(lw) THEN FALSE
             ELSE IF ParseInt(inRoot.height) # BigOf(lh) THEN FALSE
             ELSE IF Len(inRoot.tilesets) = 0 THEN FALSE
             ELSE IF Len(inRoot.tilesets) > 1 THEN FALSE
             ELSE IF Len(inRoot.tilesets[1].images) = 0 THEN FALSE
             ELSE IF Len(inRoot.tilesets[1].images) > 1 THEN FALSE
             ELSE IF inRoot.tilesets[1].images[1].source # OutTilesetFile THEN FALSE
             ELSE TRUE

\* A check that looks at the atlas file only.
CheckExistingFiles_AtlasOnly(merge, overwrite, atlasExists, docExists) ==
    IF merge /\ overwrite THEN FALSE
    ELSE IF atlasExists /\ ~merge /\ ~overwrite THEN FALSE
    ELSE TRUE

\* CheckExistingFiles
CheckExistingFiles(merge, overwrite, atlasExists, docExists) ==
    IF merge /\ overwrite THEN FALSE
    ELSE IF atlasExists /\ ~merge /\ ~overwrite THEN FALSE
    ELSE IF docExists /\ ~merge /\ ~overwrite THEN FALSE
    ELSE TRUE

\* os.path.exists(file) for a name of fileList
FileExists(file, images, atlas) ==
    IF file = OutTilesetFile THEN atlas.exists ELSE images[file].exists

\* CreateLayerFiles without a glob pattern: [ok, layerFiles, layerNames]
RECURSIVE LayerFilesFrom(_, _, _, _, _, _)
LayerFilesFrom(files, k, images, atlas, lf, ln) ==
    IF k > Len(files) THEN [ok |-> TRUE, layerFiles |-> lf, layerNames |-> ln]
    ELSE IF ~FileExists(files[k], images, atlas)
         THEN [ok |-> FALSE, layerFiles |-> lf, layerNames |-> ln]
         ELSE IF files[k] # OutTilesetFile
              THEN LayerFilesFrom(files, k + 1, images, atlas,
                                  Append(lf, files[k]), Append(ln, LayerNameOf(files[k])))
              ELSE LayerFilesFrom(files, k + 1, images, atlas, lf, ln)

CreateLayerFiles(files, images, atlas) ==
    IF Len(files) = 0 THEN [ok |-> FALSE, layerFiles |-> << >>, layerNames |-> << >>]
    ELSE LayerFilesFrom(files, 1, images, atlas, << >>, << >>)

\* CheckNavArguments: [ok, createNavData]
CheckNavArguments(nav, names) ==
    LET Named(n) == \E k \in 1..Len(names) : names[k] = n
    IN  IF nav.portal # "" \/ nav.floor # "" \/ nav.wall # "" \/ nav.door # ""
        THEN IF nav.portal = "" \/ nav.wall = "" \/ nav.floor = "" \/ nav.door = ""
             THEN [ok |-> FALSE, createNavData |-> FALSE]
             ELSE IF ~Named(nav.floor) THEN [ok |-> FALSE, createNavData |-> FALSE]
             ELSE IF ~Named(nav.wall) THEN [ok |-> FALSE, createNavData |-> FALSE]
             ELSE IF ~Named(nav.portal) THEN [ok |-> FALSE, createNavData |-> FALSE]
             ELSE [ok |-> TRUE, createNavData |-> TRUE]
        ELSE [ok |-> TRUE, createNavData |-> FALSE]

\* A check that looks at the first layer file only.
CheckImageSizes_FirstOnly(files, images, tw, th) ==
    LET first == LoadCroppedImage(images[files[1]].content).size
        bad   == [ok |-> FALSE, imageSize |-> <<0, 0>>, layerWidth |-> 0,
                  layerHeight |-> 0, layerTiles |-> 0]
        set   == [ok |-> TRUE, imageSize |-> first, layerWidth |-> first[1] \div tw,
                  layerHeight |-> first[2] \div th,
                  layerTiles |-> (first[1] \div tw) * (first[2] \div th)]
    IN  IF first[1] % tw # 0 THEN bad
        ELSE IF first[2] % th # 0 THEN bad
        ELSE set

\* CheckImageSizes: [ok, imageSize, layerWidth, layerHeight, layerTiles]
CheckImageSizes(files, images, tw, th) ==
    LET first == LoadCroppedImage(images[files[1]].content).size
        bad   == [ok |-> FALSE, imageSize |-> <<0, 0>>, layerWidth |-> 0,
                  layerHeight |-> 0, layerTiles |-> 0]
        set   == [ok |-> TRUE, imageSize |-> first, layerWidth |-> first[1] \div tw,
                  layerHeight |-> first[2] \div th,
                  layerTiles |-> (first[1] \div tw) * (first[2] \div th)]
    IN  IF first[1] % tw # 0 THEN bad
        ELSE IF first[2] % th # 0 THEN bad
        ELSE IF \E k \in 2..Len(files) :
                   LoadCroppedImage(images[files[k]].content).size # first
             THEN [set EXCEPT !.ok = FALSE]
             ELSE set

tsVars == <<imageDict, layerDict, lastTileMatchIndex, subimgIdx,
            tsLayer, tsIdx, tsCells, tsPc>>
cfgVars == <<layerFiles, layerTiles, tileWidth, tileHeight>>
xfVars == <<im1org, im2org, xfResult, xfPc>>
argVars == <<mergeExisting, overwriteExisting, forceSquareTileset, fileList, navLayers>>
diskVars == <<inputImage, fsAtlas, fsDoc, fsAtlas0, fsDoc0>>
selfVars == <<layerNames, imageSize, layerWidth, layerHeight, tilesetSize, createNavData>>
runVars == <<run, firstDoc>>
buildVars == <<argVars, diskVars, selfVars, runVars, pc, failedIn>>
pkVars == <<pkTileCount, pkDims, pkPc>>
fnVars == <<fnN, fnK, fnPc>>
cbVars == <<ctfImageDict, ctfLayerDict, ctfSubimgIdx>>
navVars == <<navWalkable, navPortals, navQueue, navRoomTiles, navRooms, navPc, navError>>

TsState == [imageDict |-> imageDict, layerDict |-> layerDict,
            lastTileMatchIndex |-> lastTileMatchIndex, subimgIdx |-> subimgIdx]

TsAssign(st) ==
    /\ imageDict' = st.imageDict
    /\ layerDict' = st.layerDict
    /\ lastTileMatchIndex' = st.lastTileMatchIndex
    /\ subimgIdx' = st.subimgIdx

\* lines 429-441: the dictionaries, the empty tile, the counters
TS_Begin ==
    /\ tsPc = "begin"
    /\ TsAssign(TilesetStart(tileWidth, tileHeight))
    /\ tsLayer' = 1
    /\ tsIdx' = 0
    /\ tsPc' = "layer"
    /\ UNCHANGED <<tsCells, cfgVars, xfVars, gidVars, buildVars, pkVars, fnVars, cbVars, navVars>>

\* lines 442-449: the head of "for fname in self.layerFiles"
TS_OpenLayer ==
    /\ tsPc = "layer"
    /\ tsLayer <= Len(layerFiles)
    /\ TsAssign(OpenLayer(TsState, LayerNameOf(layerFiles[tsLayer])))
    /\ tsIdx' = 0
    /\ tsPc' = IF layerTiles = 0 THEN "layer" ELSE "cell"
    /\ tsLayer' = IF layerTiles = 0 THEN tsLayer + 1 ELSE tsLayer
    /\ UNCHANGED <<tsCells, cfgVars, xfVars, gidVars, buildVars, pkVars, fnVars, cbVars, navVars>>

\* lines 450-504: one cell; its tile is whatever the layer image holds there
TS_Cell ==
    /\ tsPc = "cell"
    /\ \E subimg \in Palette :
          /\ TsAssign(CellStep(TsState, LayerNameOf(layerFiles[tsLayer]), tsIdx, subimg))
          /\ tsCells' = Append(tsCells, <<tsLayer, tsIdx, subimg>>)
    /\ IF tsIdx + 1 < layerTiles
       THEN tsIdx' = tsIdx + 1 /\ UNCHANGED <<tsLayer, tsPc>>
       ELSE tsIdx' = 0 /\ tsLayer' = tsLayer + 1 /\ tsPc' = "layer"
    /\ UNCHANGED <<cfgVars, xfVars, gidVars, buildVars, pkVars, fnVars, cbVars, navVars>>

\* line 505: return True
TS_Return ==
    /\ tsPc = "layer"
    /\ tsLayer > Len(layerFiles)
    /\ tsPc' = "done"
    /\ UNCHANGED <<imageDict, layerDict, lastTileMatchIndex, subimgIdx,
                   tsLayer, tsIdx, tsCells, cfgVars, xfVars, gidVars, buildVars, pkVars, fnVars, cbVars, navVars>>

TsIdle ==
    /\ imageDict = << >>
    /\ layerDict = << >>
    /\ lastTileMatchIndex = 0
    /\ subimgIdx = 0
    /\ tsLayer = 0
    /\ tsIdx = 0
    /\ tsCells = << >>
    /\ tsPc = "idle"

CfgIdle ==
    /\ layerFiles = << >>
    /\ layerTiles = 0
    /\ tileWidth = 0
    /\ tileHeight = 0

BuildRestIdle ==
    /\ mergeExisting = FALSE
    /\ overwriteExisting = FALSE
    /\ fileList = << >>
    /\ navLayers = [floor |-> "", wall |-> "", portal |-> "", door |-> ""]
    /\ inputImage = << >>
    /\ fsAtlas = NoFile
    /\ fsDoc = NoFile
    /\ fsAtlas0 = NoFile
    /\ fsDoc0 = NoFile
    /\ layerNames = << >>
    /\ imageSize = <<0, 0>>
    /\ layerWidth = 0
    /\ layerHeight = 0
    /\ tilesetSize = <<0, 0>>
    /\ createNavData = FALSE
    /\ pc = "idle"
    /\ failedIn = ""
    /\ run = 0
    /\ firstDoc = NoFile

BuildIdle ==
    /\ forceSquareTileset = FALSE
    /\ BuildRestIdle

PkIdle ==
    /\ pkTileCount = 0
    /\ pkDims = <<0, 0>>
    /\ pkPc = "idle"

FnIdle ==
    /\ fnN = 0
    /\ fnK = 0
    /\ fnPc = "idle"

CbIdle ==
    /\ ctfImageDict = << >>
    /\ ctfLayerDict = << >>
    /\ ctfSubimgIdx = 0

NavIdle ==
    /\ navWalkable = << >>
    /\ navPortals = {}
    /\ navQueue = << >>
    /\ navRoomTiles = << >>
    /\ navRooms = << >>
    /\ navPc = "idle"
    /\ navError = ""

XfIdle ==
    /\ im1org = EmptyTile(1, 1)
    /\ im2org = EmptyTile(1, 1)
    /\ xfResult = None
    /\ xfPc = "idle"

\* ---- FindImageTransformation on any two images ---------------------------
XF_Call ==
    /\ xfPc = "call"
    /\ xfResult' = FindImageTransformation(im1org, im2org)
    /\ xfPc' = "returned"
    /\ UNCHANGED <<im1org, im2org, tsVars, cfgVars, gidVars, buildVars, pkVars, fnVars, cbVars, navVars>>

\* CreateTiledFiles runs with 32 x 32 tiles only (creator.ProcessInputs(32,32)):
\* its FindImageTransformation sees two square images of one size.
XF_CallCTF ==
    /\ xfPc = "call"
    /\ im1org.size = im2org.size
    /\ im1org.size[1] = im1org.size[2]
    /\ xfResult' = CTF_FindImageTransformation(im1org, im2org)
    /\ xfPc' = "returnedCTF"
    /\ UNCHANGED <<im1org, im2org, tsVars, cfgVars, gidVars, buildVars, pkVars, fnVars, cbVars, navVars>>

vars == <<xfVars, tsVars, cfgVars, gidVars, buildVars, pkVars, fnVars, cbVars, navVars>>

InitXform ==
    /\ PkIdle
    /\ FnIdle
    /\ CbIdle
    /\ NavIdle
    /\ im1org \in AllImages
    /\ im2org \in AllImages
    /\ xfResult = None
    /\ xfPc = "call"
    /\ TsIdle
    /\ CfgIdle
    /\ GidIdle
    /\ BuildIdle

NextXform == XF_Call \/ XF_CallCTF

SpecXform == InitXform /\ [][NextXform]_vars

InitTileset ==
    /\ PkIdle
    /\ FnIdle
    /\ CbIdle
    /\ NavIdle
    /\ XfIdle
    /\ GidIdle
    /\ BuildIdle
    /\ \E n \in 1..MaxLayers : layerFiles = SubSeq(FileCatalog, 1, n)
    /\ layerTiles \in 1..MaxLayerTiles
    /\ tileWidth = 2
    /\ tileHeight = 2
    /\ imageDict = << >>
    /\ layerDict = << >>
    /\ lastTileMatchIndex = 0
    /\ subimgIdx = 0
    /\ tsLayer = 0
    /\ tsIdx = 0
    /\ tsCells = << >>
    /\ tsPc = "begin"

NextTileset == TS_Begin \/ TS_OpenLayer \/ TS_Cell \/ TS_Return

SpecTileset == InitTileset /\ [][NextTileset]_vars

\* --------------------------------------------------------------------------
\* ProcessInputs, step by step
\* --------------------------------------------------------------------------
\* a layer image: the tiles of a grid `cols` wide, row by row
LayerImage(tiles, cols, tw, th) ==
    LET size == <<cols * tw, (Len(tiles) \div cols) * th>>
    IN  [size |-> size,
         px   |-> [p \in Pos(size) |->
                     tiles[(p[2] \div th) * cols + (p[1] \div tw) + 1].px[<<p[1] % tw, p[2] % th>>]]]

\* the layer images on disk: 2 x 1 grids of 2 x 2 tiles, one 1 x 1 grid, and
\* one image 3 pixels wide
InputImages ==
    { LayerImage(<<TileA, ROTATE_90(TileA)>>, 2, 2, 2),
      LayerImage(<<TileB, TileA>>, 2, 2, 2),
      LayerImage(<<EmptyTile(2, 2), TileB>>, 2, 2, 2),
      LayerImage(<<TileA>>, 1, 2, 2),
      LayerImage(<<TileA, TileB, EmptyTile(2, 2), ROTATE_90(TileA)>>, 2, 2, 2),
      ImageNew(<<3, 2>>, 1) }

InputFiles == {"Floors.png", "Walls.png", "art/Floors.png"}

FileLists == { <<"Floors.png">>, <<"Floors.png", "Walls.png">>,
               <<"Floors.png", "tileset.png">>, <<"art/Floors.png", "Floors.png">> }

\* an atlas an earlier run left: one empty tile
OldAtlas == ImageNew(<<2, 2>>, 0)

OldTileset(source) ==
    [firstgid |-> StrOf(1), name |-> "tileset", tilewidth |-> StrOf(2), tileheight |-> StrOf(2),
     images |-> << [source |-> source, width |-> StrOf(2), height |-> StrOf(2)] >>]

OldLayer(name, tiles) ==
    [name |-> name, width |-> StrOf(2), height |-> StrOf(1),
     data |-> << [idx \in 1..tiles |-> StrOf(0)] >>]

OldTilesets ==
    { << >>,
      << OldTileset(OutTilesetFile) >>,
      << OldTileset("other.png") >>,
      << OldTileset(OutTilesetFile), OldTileset("other.png") >>,
      << [OldTileset(OutTilesetFile) EXCEPT !.images = << >>] >> }

OldLayers ==
    { << >>,
      << OldLayer("Floors", 2) >>,
      << OldLayer("Walls", 2), OldLayer("Extra", 2) >>,
      << OldLayer("Floors", 3) >>,
      << OldLayer("Floors", 1) >>,
      << [OldLayer("Floors", 2) EXCEPT !.data = << >>] >> }

OldDoc(lw, lh, ts, ls) ==
    [version |-> "1.0", orientation |-> "orthogonal", renderorder |-> "left-up",
     width |-> StrOf(lw), height |-> StrOf(lh),
     tilewidth |-> StrOf(2), tileheight |-> StrOf(2),
     tilesets |-> ts, layers |-> ls]

\* the documents an earlier run, or an editor, left: maps 2 x 1 with every
\* tileset list and layer list above, and maps of two other sizes
OldDocs ==
    { OldDoc(2, 1, ts, ls) : ts \in OldTilesets, ls \in OldLayers }
    \cup { OldDoc(1, 1, << OldTileset(OutTilesetFile) >>, << >>),
           OldDoc(2, 2, << OldTileset(OutTilesetFile) >>, << >>) }

\* what the input files hold; art/Floors.png is always there
InputDisks ==
    { [f \in InputFiles |->
          IF f = "Floors.png" THEN a
          ELSE IF f = "Walls.png" THEN b
          ELSE AsFile(LayerImage(<<TileB, TileB>>, 2, 2, 2))] :
        a \in {AsFile(im) : im \in InputImages} \cup {NoFile},
        b \in {AsFile(LayerImage(<<TileB, TileA>>, 2, 2, 2)),
               AsFile(LayerImage(<<EmptyTile(2, 2), TileB>>, 2, 2, 2)),
               AsFile(LayerImage(<<TileA>>, 1, 2, 2)),
               AsFile(LayerImage(<<TileB, EmptyTile(2, 2), TileA, TileA>>, 2, 2, 2)),
               NoFile} }

Fail(step) ==
    /\ pc' = "failed"
    /\ failedIn' = step

\* lines 821-823
PI_CheckExistingFiles ==
    /\ pc = "CheckExistingFiles"
    /\ IF CheckExistingFiles(mergeExisting, overwriteExisting, fsAtlas.exists, fsDoc.exists)
       THEN pc' = "CreateLayerFiles" /\ UNCHANGED failedIn
       ELSE Fail("CheckExistingFiles")
    /\ UNCHANGED <<pkVars, fnVars, cbVars, navVars, runVars, xfVars, tsVars, cfgVars, gidVars, argVars, diskVars, selfVars>>

\* lines 824-826
PI_CreateLayerFiles ==
    /\ pc = "CreateLayerFiles"
    /\ LET r == CreateLayerFiles(fileList, inputImage, fsAtlas)
       IN  /\ layerFiles' = r.layerFiles
           /\ layerNames' = r.layerNames
           /\ IF r.ok THEN pc' = "CheckNavArguments" /\ UNCHANGED failedIn
              ELSE Fail("CreateLayerFiles")
    /\ UNCHANGED <<pkVars, fnVars, cbVars, navVars, runVars, xfVars, tsVars, gidVars, argVars, diskVars,
                   layerTiles, tileWidth, tileHeight,
                   imageSize, layerWidth, layerHeight, tilesetSize, createNavData>>

\* lines 827-829
PI_CheckNavArguments ==
    /\ pc = "CheckNavArguments"
    /\ LET r == CheckNavArguments(navLayers, layerNames)
       IN  /\ createNavData' = r.createNavData
           /\ IF r.ok THEN pc' = "CheckImageSizes" /\ UNCHANGED failedIn
              ELSE Fail("CheckNavArguments")
    /\ UNCHANGED <<pkVars, fnVars, cbVars, navVars, runVars, xfVars, tsVars, cfgVars, gidVars, argVars, diskVars,
                   layerNames, imageSize, layerWidth, layerHeight, tilesetSize>>

\* lines 830-832
PI_CheckImageSizes ==
    /\ pc = "CheckImageSizes"
    /\ LET r == CheckImageSizes(layerFiles, inputImage, tileWidth, tileHeight)
       IN  /\ imageSize' = r.imageSize
           /\ layerWidth' = r.layerWidth
           /\ layerHeight' = r.layerHeight
           /\ layerTiles' = r.layerTiles
           /\ IF r.ok THEN pc' = "CheckMergingFiles" /\ UNCHANGED failedIn
              ELSE Fail("CheckImageSizes")
    /\ UNCHANGED <<pkVars, fnVars, cbVars, navVars, runVars, xfVars, tsVars, gidVars, argVars, diskVars,
                   layerFiles, tileWidth, tileHeight,
                   layerNames, tilesetSize, createNavData>>

\* lines 833-835
PI_CheckMergingFiles ==
    /\ pc = "CheckMergingFiles"
    /\ IF CheckMergingFiles(fsDoc, mergeExisting, layerWidth, layerHeight)
       THEN pc' = "CreateTileset" /\ UNCHANGED failedIn
       ELSE Fail("CheckMergingFiles")
    /\ UNCHANGED <<pkVars, fnVars, cbVars, navVars, runVars, xfVars, tsVars, cfgVars, gidVars, argVars, diskVars, selfVars>>

\* lines 836-838: CreateTileset always returns True
PI_CreateTileset ==
    /\ pc = "CreateTileset"
    /\ TsAssign(CreateTileset(inputImage,
                              [layerFiles |-> layerFiles, layerTiles |-> layerTiles,
                               layerWidth |-> layerWidth, tileWidth |-> tileWidth,
                               tileHeight |-> tileHeight]))
    /\ pc' = "CreateNavData"
    /\ UNCHANGED <<pkVars, fnVars, cbVars, navVars, runVars, xfVars, tsLayer, tsIdx, tsCells, tsPc, cfgVars, gidVars,
                   argVars, diskVars, selfVars, failedIn>>

\* lines 839-841, without navigation layers: CreateNavData returns at line 419
PI_CreateNavData ==
    /\ pc = "CreateNavData"
    /\ ~createNavData
    /\ pc' = "ExportTileset"
    /\ UNCHANGED <<pkVars, fnVars, cbVars, navVars, runVars, xfVars, tsVars, cfgVars, gidVars, argVars, diskVars, selfVars, failedIn>>

\* lines 843-845: ExportTileset saves the atlas (line 583) and returns True
PI_ExportTileset ==
    /\ pc = "ExportTileset"
    /\ LET imgOut == TilesetImage(imageDict, forceSquareTileset, tileWidth, tileHeight)
       IN  /\ tilesetSize' = imgOut.size
           /\ fsAtlas' = AsFile(imgOut)
    /\ pc' = "ExportTiledFile"
    /\ UNCHANGED <<pkVars, fnVars, cbVars, navVars, runVars, xfVars, tsVars, cfgVars, gidVars, argVars,
                   inputImage, fsDoc, fsAtlas0, fsDoc0,
                   layerNames, imageSize, layerWidth, layerHeight, createNavData, failedIn>>

\* lines 846-848: ExportTiledFile merges or builds the document and writes it;
\* an exception in MergeTiledFiles leaves ProcessInputs before the write
PI_ExportTiledFile ==
    /\ pc = "ExportTiledFile"
    /\ IF fsDoc.exists /\ mergeExisting
       THEN LET r == MergeTiledFiles(fsDoc.content, layerNames, layerDict,
                                     layerWidth, layerHeight)
            IN  IF r.ok
                THEN fsDoc' = AsFile(r.doc) /\ pc' = "done" /\ UNCHANGED failedIn
                ELSE UNCHANGED fsDoc /\ pc' = "crashed" /\ failedIn' = "ExportTiledFile"
       ELSE /\ fsDoc' = AsFile(CreateTiledFile(layerNames, layerDict, layerWidth,
                                               layerHeight, tileWidth, tileHeight,
                                               tilesetSize))
            /\ pc' = "done"
            /\ UNCHANGED failedIn
    /\ UNCHANGED <<pkVars, fnVars, cbVars, navVars, runVars, xfVars, tsVars, cfgVars, gidVars, argVars,
                   inputImage, fsAtlas, fsAtlas0, fsDoc0, selfVars>>

\* The script run a second time on the same inputs, with --mergeExisting, over
\* the files a first run without an existing document to merge has written.
PI_RunAgainMerging ==
    /\ pc = "done"
    /\ run = 1
    /\ ~(mergeExisting /\ fsDoc0.exists)
    /\ run' = 2
    /\ firstDoc' = fsDoc
    /\ mergeExisting' = TRUE
    /\ overwriteExisting' = FALSE
    /\ fsAtlas0' = fsAtlas
    /\ fsDoc0' = fsDoc
    /\ imageDict' = << >>
    /\ layerDict' = << >>
    /\ lastTileMatchIndex' = 0
    /\ subimgIdx' = 0
    /\ layerFiles' = << >>
    /\ layerTiles' = 0
    /\ layerNames' = << >>
    /\ imageSize' = <<0, 0>>
    /\ layerWidth' = 0
    /\ layerHeight' = 0
    /\ tilesetSize' = <<0, 0>>
    /\ createNavData' = FALSE
    /\ pc' = "CheckExistingFiles"
    /\ UNCHANGED <<pkVars, fnVars, cbVars, navVars, xfVars, gidVars, tsLayer, tsIdx, tsCells, tsPc,
                   tileWidth, tileHeight, forceSquareTileset, fileList, navLayers,
                   inputImage, fsAtlas, fsDoc, failedIn>>

\* the state after lines 800-818
Init ==
    /\ XfIdle
    /\ GidIdle
    /\ TsIdle
    /\ mergeExisting \in BOOLEAN
    /\ overwriteExisting \in BOOLEAN
    /\ forceSquareTileset \in BOOLEAN
    /\ fileList \in FileLists
    /\ navLayers \in { [floor |-> "", wall |-> "", portal |-> "", door |-> ""],
                       [floor |-> "Floors", wall |-> "", portal |-> "", door |-> ""] }
    /\ inputImage \in InputDisks
    /\ fsAtlas \in {NoFile, AsFile(OldAtlas)}
    /\ fsDoc \in {NoFile} \cup {AsFile(d) : d \in OldDocs}
    /\ fsAtlas0 = fsAtlas
    /\ fsDoc0 = fsDoc
    /\ layerFiles = << >>
    /\ layerTiles = 0
    /\ tileWidth = 2
    /\ tileHeight = 2
    /\ layerNames = << >>
    /\ imageSize = <<0, 0>>
    /\ layerWidth = 0
    /\ layerHeight = 0
    /\ tilesetSize = <<0, 0>>
    /\ createNavData = FALSE
    /\ pc = "CheckExistingFiles"
    /\ failedIn = ""
    /\ run = 1
    /\ firstDoc = NoFile
    /\ PkIdle
    /\ FnIdle
    /\ CbIdle
    /\ NavIdle

Next ==
    \/ PI_CheckExistingFiles
    \/ PI_CreateLayerFiles
    \/ PI_CheckNavArguments
    \/ PI_CheckImageSizes
    \/ PI_CheckMergingFiles
    \/ PI_CreateTileset
    \/ PI_CreateNavData
    \/ PI_ExportTileset
    \/ PI_ExportTiledFile
    \/ PI_RunAgainMerging

Spec == Init /\ [][Next]_vars

\* ---- one cell through the writer and the two readers ----------------------
\* CreateXMLLayer lines 636-641
GID_Write ==
    /\ gidPc = "write"
    /\ gidAttr' = GidAttribute(gidCell)
    /\ gidPc' = "written"
    /\ UNCHANGED <<gidCell, gidOut, xfVars, tsVars, cfgVars, buildVars, pkVars, fnVars, cbVars, navVars>>

\* MapDataExtractor line 216: self.ExtractTileIndex(int(tile.attrib["gid"]))
GID_ReadExtractor ==
    /\ gidPc = "written"
    /\ gidOut' = MDE_ExtractTileIndex(ParseInt(gidAttr))
    /\ gidPc' = "readExtractor"
    /\ UNCHANGED <<gidCell, gidAttr, xfVars, tsVars, cfgVars, buildVars, pkVars, fnVars, cbVars, navVars>>

\* MapTiler.ExtractTileIndex on the gid UpdateGIDForRotation forms for the cell
GID_ReadMapTiler ==
    /\ gidPc = "written"
    /\ gidOut' = MT_ExtractTileIndex(UpdateGIDForRotation(BigOf(gidCell[1] + 1), gidCell[2]))
    /\ gidPc' = "readMapTiler"
    /\ UNCHANGED <<gidCell, gidAttr, xfVars, tsVars, cfgVars, buildVars, pkVars, fnVars, cbVars, navVars>>

\* the atlas indices written: the small ones and the largest with index + 1 < 2^29
GidIndices == (0..MaxAtlasIndex) \cup {LimbBase - 2}

InitGID ==
    /\ PkIdle
    /\ FnIdle
    /\ CbIdle
    /\ NavIdle
    /\ XfIdle
    /\ TsIdle
    /\ CfgIdle
    /\ BuildIdle
    /\ gidCell \in GidIndices \X (0..7)
    /\ gidAttr = << >>
    /\ gidOut = Big(0, 0)
    /\ gidPc = "write"

NextGID == GID_Write \/ GID_ReadExtractor \/ GID_ReadMapTiler

SpecGID == InitGID /\ [][NextGID]_vars

\* --------------------------------------------------------------------------
\* The geometric transforms the claims speak of, stated by where each pixel
\* of the source goes (not by the PIL calls of the code).
\* --------------------------------------------------------------------------
\* the pixel at (x, y) goes to (w - 1 - x, y)
MirrorHorizontally(im) ==
    [size |-> im.size,
     px   |-> [q \in Pos(im.size) |->
                 im.px[CHOOSE p \in Pos(im.size) : <<im.size[1] - 1 - p[1], p[2]>> = q]]]

\* a counter-clockwise quarter turn: the pixel at (x, y) goes to (y, w - 1 - x)
QuarterTurn(im) ==
    LET out == <<im.size[2], im.size[1]>>
    IN  [size |-> out,
         px   |-> [q \in Pos(out) |->
                     im.px[CHOOSE p \in Pos(im.size) : <<p[2], im.size[1] - 1 - p[1]>> = q]]]

RECURSIVE QuarterTurns(_, _)
QuarterTurns(im, k) == IF k = 0 THEN im ELSE QuarterTurns(QuarterTurn(im), k - 1)

\* horizontal mirror first when t >= 4, then (t mod 4) quarter turns
ApplyTransform(im, t) ==
    QuarterTurns(IF t >= 4 THEN MirrorHorizontally(im) ELSE im, t % 4)

MatchingCodes(candidate, reference) ==
    { t \in 0..7 : ApplyTransform(reference, t) = candidate }

LowestMatchingCode(candidate, reference) ==
    LET M == MatchingCodes(candidate, reference)
    IN  IF M = {} THEN None ELSE CHOOSE t \in M : \A u \in M : t <= u

Equivalent(a, b) == MatchingCodes(a, b) # {}

IsSquare(im) == im.size[1] = im.size[2]

IsBlank(im) == \A p \in Pos(im.size) : im.px[p] = 0

\* The map editor's reading of the three GID flags: the diagonal flip (x and y
\* swapped) first, then the horizontal flip, then the vertical flip.
FlipDiagonally(im) ==
    [size |-> <<im.size[2], im.size[1]>>,
     px   |-> [q \in Pos(<<im.size[2], im.size[1]>>) |-> im.px[<<q[2], q[1]>>]]]

FlipHorizontally(im) ==
    [size |-> im.size,
     px   |-> [q \in Pos(im.size) |-> im.px[<<im.size[1] - 1 - q[1], q[2]>>]]]

FlipVertically(im) ==
    [size |-> im.size,
     px   |-> [q \in Pos(im.size) |-> im.px[<<q[1], im.size[2] - 1 - q[2]>>]]]

RenderWithFlags(im, flags) ==
    LET d == IF flags[3] THEN FlipDiagonally(im) ELSE im
        h == IF flags[1] THEN FlipHorizontally(d) ELSE d
    IN  IF flags[2] THEN FlipVertically(h) ELSE h

C2_FlagsAreTheTransform ==
    /\ \A t \in 0..7 :
          /\ TRANSFORM_LIST[t + 1][1] = t
          /\ TRANSFORM_LIST[t + 1][2] = (t >= 4)
          /\ TRANSFORM_LIST[t + 1][3] = t % 4
          /\ IsSquare(im2org) =>
                /\ RenderWithFlags(im2org, TRANSFORM_DICT[t]) = ApplyTransform(im2org, t)
                /\ RenderWithFlags(im2org, TRANSFORM_DICT[t])
                      = TransformedReference(im2org, TRANSFORM_LIST[t + 1][2],
                                             TRANSFORM_LIST[t + 1][3])
    /\ (xfPc = "returned" /\ xfResult # None /\ IsSquare(im2org))
          => RenderWithFlags(im2org, TRANSFORM_DICT[xfResult]) = im1org

\* a tile that no transform but the identity maps to itself, matched with code 7
C2_Witness ==
    /\ xfPc = "returned"
    /\ im2org.size = <<2, 2>>
    /\ Cardinality({ ApplyTransform(im2org, t) : t \in 0..7 }) = 8
    /\ xfResult = 7

\* --------------------------------------------------------------------------
\* CreateTileset: the cells read so far and what was recorded for them
\* --------------------------------------------------------------------------
TsRunning == tsPc \in {"layer", "cell", "done"}

Recorded(n) == layerDict[LayerNameOf(layerFiles[tsCells[n][1]])][tsCells[n][2]]

References(i) == { n \in 1..Len(tsCells) : Recorded(n)[1] = i }

FirstReference(i) == CHOOSE n \in References(i) : \A m \in References(i) : n <= m

\* --------------------------------------------------------------------------
\* C3: at every point of CreateTileset the atlas keys are exactly 0..U-1,
\* entry 0 is the fully transparent tile, a tile is only ever added at index U,
\* no entry is changed or removed, and for 1 <= i < j the first cell that
\* references i is read before the first cell that references j.
\* --------------------------------------------------------------------------
C3_AtlasShape ==
    TsRunning =>
        /\ DOMAIN imageDict = 0..(Cardinality(DOMAIN imageDict) - 1)
        /\ imageDict[0].size = <<tileWidth, tileHeight>>
        /\ IsBlank(imageDict[0])
        /\ \A i \in DOMAIN imageDict : \A j \in DOMAIN imageDict :
              (1 <= i /\ i < j) =>
                  /\ References(i) # {}
                  /\ References(j) # {}
                  /\ FirstReference(i) < FirstReference(j)

C3_AtlasGrowth ==
    TsRunning =>
        /\ \A k \in DOMAIN imageDict :
              k \in DOMAIN imageDict' /\ imageDict'[k] = imageDict[k]
        /\ (DOMAIN imageDict') \ (DOMAIN imageDict) \subseteq {Cardinality(DOMAIN imageDict)}

C3_AtlasOnlyGrows == [](C3_AtlasShape) /\ [][C3_AtlasGrowth]_vars

\* three atlas entries, the third added in the second layer
C3_Witness ==
    /\ tsPc = "done"
    /\ Cardinality(DOMAIN imageDict) = 3
    /\ Len(tsCells) = 4
    /\ FirstReference(1) = 2
    /\ FirstReference(2) = 4

\* Every tile CreateTileset reads here is a tile of the palette: what
\* FindImageTransformation returns for two of them, and whether one of the 8
\* transforms relates them, tabulated once.
PaletteTransformation == [a \in Palette |-> [b \in Palette |-> FindImageTransformation(a, b)]]

PaletteEquivalent == [a \in Palette |-> [b \in Palette |-> Equivalent(a, b)]]

\* --------------------------------------------------------------------------
\* C4: at every point of CreateTileset no two distinct atlas entries are equal
\* up to one of the 8 transforms, every tile read so far has exactly one atlas
\* entry of its class, and every entry but the empty tile at 0 is the first
\* tile read of its class.
\* --------------------------------------------------------------------------
C4_OneRepresentative ==
    TsRunning =>
        /\ \A a \in DOMAIN imageDict : \A b \in DOMAIN imageDict :
              a # b => /\ PaletteTransformation[imageDict[a]][imageDict[b]] = None
                       /\ ~PaletteEquivalent[imageDict[a]][imageDict[b]]
        /\ \A n \in 1..Len(tsCells) :
              Cardinality({ i \in DOMAIN imageDict :
                               PaletteEquivalent[tsCells[n][3]][imageDict[i]] }) = 1
        /\ \A i \in (DOMAIN imageDict) \ {0} :
              \E n \in 1..Len(tsCells) :
                  /\ tsCells[n][3] = imageDict[i]
                  /\ \A m \in 1..(n - 1) : ~PaletteEquivalent[tsCells[m][3]][imageDict[i]]

\* a tile and its quarter turn were both read, the turned one first, with a
\* tile of another class between them
C4_Witness ==
    /\ Len(tsCells) = 4
    /\ tsCells[1][3] = ROTATE_90(TileA)
    /\ tsCells[2][3] = TileB
    /\ tsCells[3][3] = TileA
    /\ tsCells[4][3] = EmptyTile(2, 2)
    /\ Cardinality(DOMAIN imageDict) = 3

\* --------------------------------------------------------------------------
\* GIDs as the claims read them
\* --------------------------------------------------------------------------
\* bit k of g, for k = 29, 30, 31
FlagBit(g, k) == (g.hi \div (2^(k - 29))) % 2 = 1

\* the value with bit 31 set iff flags[1], bit 30 iff flags[2], bit 29 iff
\* flags[3], and `low` in the bits below
WithFlagBits(low, flags) ==
    Big((IF flags[1] THEN 4 ELSE 0) + (IF flags[2] THEN 2 ELSE 0) + (IF flags[3] THEN 1 ELSE 0),
        low)

IsDecimal(s) ==
    /\ Len(s) >= 1
    /\ \A i \in 1..Len(s) : s[i] \in 0..9
    /\ (Len(s) > 1 => s[1] # 0)

\* the decoder of the spec: gid 0 is the empty tile; otherwise the index is the
\* gid without its three flag bits, less one, and the code is the entry of
\* TRANSFORM_DICT that holds the three flag bits
Decode(attr) ==
    LET g == ParseInt(attr)
        flags == <<FlagBit(g, 31), FlagBit(g, 30), FlagBit(g, 29)>>
        masked == MDE_ExtractTileIndex(g)
    IN  IF g = Big(0, 0) THEN <<0, 0>>
        ELSE <<masked.hi * LimbBase + masked.lo - 1,
               CHOOSE t \in 0..7 : TRANSFORM_DICT[t] = flags>>

GidWritten == gidPc \in {"written", "readExtractor", "readMapTiler"}

\* --------------------------------------------------------------------------
\* C5: a cell with atlas index 0 is written as gid 0; any other cell
\* (index, code) as index + 1 with bit 31 iff flipHoriz, bit 30 iff flipVert,
\* bit 29 iff flipDiag of TRANSFORM_DICT[code]; the sum UpdateGIDForRotation
\* forms equals the bitwise OR and is below 2^32 whenever index + 1 < 2^29.
\* --------------------------------------------------------------------------
C5_GidEncoding ==
    GidWritten =>
        LET index == gidCell[1]
            flags == TRANSFORM_DICT[gidCell[2]]
            sum   == UpdateGIDForRotation(BigOf(index + 1), gidCell[2])
        IN  /\ IsDecimal(gidAttr)
            /\ index = 0 => gidAttr = <<0>>
            /\ index # 0 =>
                  /\ ParseInt(gidAttr) = WithFlagBits(index + 1, flags)
                  /\ FlagBit(ParseInt(gidAttr), 31) = flags[1]
                  /\ FlagBit(ParseInt(gidAttr), 30) = flags[2]
                  /\ FlagBit(ParseInt(gidAttr), 29) = flags[3]
            /\ index + 1 < LimbBase =>
                  /\ sum = BigOr(BigOf(index + 1), WithFlagBits(0, flags))
                  /\ sum.hi < 8

\* the largest index with index + 1 < 2^29, all three flags: 4294967295
C5_Witness ==
    /\ gidPc = "written"
    /\ gidCell = <<LimbBase - 2, 7>>
    /\ gidAttr = <<4, 2, 9, 4, 9, 6, 7, 2, 9, 5>>

\* --------------------------------------------------------------------------
\* C6 as stated: for every atlas index in [0, 10000) and every code in 0..7,
\* decoding the gid written for (index, code) gives (index, code).
\* --------------------------------------------------------------------------
C6_RoundTripEveryCell ==
    (GidWritten /\ gidCell[1] <= MaxAtlasIndex) => Decode(gidAttr) = gidCell

\* C6 as amended: the round trip holds for every index in [1, 10000) with
\* every code and for (0, 0); a cell with index 0 is written as gid 0 whatever
\* its code and decodes to (0, 0).
C6_RoundTrip ==
    (GidWritten /\ gidCell[1] <= MaxAtlasIndex) =>
        /\ (gidCell[1] >= 1 \/ gidCell[2] = 0) => Decode(gidAttr) = gidCell
        /\ gidCell[1] = 0 => Decode(gidAttr) = <<0, 0>>

C6_Witness ==
    /\ gidPc = "written"
    /\ gidCell = <<MaxAtlasIndex, 7>>
    /\ Decode(gidAttr) = <<MaxAtlasIndex, 7>>

\* --------------------------------------------------------------------------
\* C7: ExtractTileIndex(UpdateGIDForRotation(i + 1, t)) = i + 1 for every
\* atlas index i and code t, for MapTiler.ExtractTileIndex and for
\* MapDataExtractor.ExtractTileIndex alike.
\* --------------------------------------------------------------------------
C7_ExtractTileIndexInverts ==
    LET gid == UpdateGIDForRotation(BigOf(gidCell[1] + 1), gidCell[2])
    IN  /\ gidPc = "readExtractor" =>
              /\ MDE_ExtractTileIndex(gid) = BigOf(gidCell[1] + 1)
              /\ gidCell[1] >= 1 => gidOut = BigOf(gidCell[1] + 1)
        /\ gidPc = "readMapTiler" => gidOut = BigOf(gidCell[1] + 1)

\* --------------------------------------------------------------------------
\* ProcessInputs and the two output files
\* --------------------------------------------------------------------------
OutputsUntouched ==
    /\ fsAtlas = fsAtlas0
    /\ fsDoc = fsDoc0

\* C8: no output file is written before the whole build has succeeded: a run of
\* ProcessInputs that fails, or that an exception leaves while the document is
\* being encoded or merged, finds the atlas file and the map document as they
\* were when it started.  (ExportTileset saves the atlas at line 583, before
\* ExportTiledFile encodes or merges anything.)
C8_FailureLeavesOutputs ==
    pc \in {"failed", "crashed"} => OutputsUntouched

\* C9: when a build succeeds, in fresh, overwrite or merge mode, the document
\* on disk has a single tileset whose single image names the atlas file and
\* whose width and height are the pixel dimensions of the atlas saved by the run.
C9_AtlasAndDocumentAgree ==
    pc = "done" =>
        LET tilesets == fsDoc.content.tilesets
        IN  /\ Len(tilesets) = 1
            /\ Len(tilesets[1].images) = 1
            /\ tilesets[1].images[1].source = OutTilesetFile
            /\ ParseInt(tilesets[1].images[1].width) = BigOf(fsAtlas.content.size[1])
            /\ ParseInt(tilesets[1].images[1].height) = BigOf(fsAtlas.content.size[2])

\* the three conflicts of an existing document with the build at hand
MergeConflict(doc) ==
    \/ ParseInt(doc.width) # BigOf(layerWidth)
    \/ ParseInt(doc.height) # BigOf(layerHeight)
    \/ Len(doc.tilesets) # 1
    \/ /\ Len(doc.tilesets) = 1
       /\ \E k \in 1..Len(doc.tilesets[1].images) :
             doc.tilesets[1].images[k].source # OutTilesetFile

\* ProcessInputs has run CheckMergingFiles
RanCheckMergingFiles ==
    \/ pc \in {"CreateTileset", "CreateNavData", "ExportTileset", "ExportTiledFile",
               "done", "crashed"}
    \/ pc = "failed" /\ failedIn = "CheckMergingFiles"

\* C10: with a merge requested and the map document present, a run that gets
\* to CheckMergingFiles with a document whose grid width or height differs
\* from the build's, that holds no or several tilesets, or whose tileset names
\* another image, fails there: nothing of the atlas has been built and the
\* document and the atlas file are as they were.
C10_MergeConflictFails ==
    (mergeExisting /\ fsDoc0.exists /\ RanCheckMergingFiles /\ MergeConflict(fsDoc0.content))
        => /\ pc = "failed"
           /\ failedIn = "CheckMergingFiles"
           /\ imageDict = << >>
           /\ tilesetSize = <<0, 0>>
           /\ OutputsUntouched

\* a document two cells wide against a build one cell wide, refused
C10_Witness ==
    /\ pc = "failed"
    /\ failedIn = "CheckMergingFiles"
    /\ mergeExisting
    /\ fsDoc0.exists
    /\ ParseInt(fsDoc0.content.width) = BigOf(2)
    /\ layerWidth = 1
    /\ fsDoc = fsDoc0

\* --------------------------------------------------------------------------
\* Merging
\* --------------------------------------------------------------------------
\* a run that has merged into the document it found, and returned True
MergedRun == pc = "done" /\ mergeExisting /\ fsDoc0.exists

\* the gids this build computed for the layer lname, cell 0 first
BuildGids(lname) ==
    [idx \in 1..(layerWidth * layerHeight) |-> GidAttribute(layerDict[lname][idx - 1])]

NamedIn(doc, lname) == \E k \in 1..Len(doc.layers) : doc.layers[k].name = lname

\* C11: after a successful merge every layer of the build is in the document
\* with, for every cell index 0..(width x height - 1), the gid this build
\* computed: a layer whose name the document already had holds them in its old
\* place, a layer whose name it did not have is a block after the old ones.
C11_MergeWritesEveryCell ==
    MergedRun =>
        \A n \in 1..Len(layerNames) :
            \E k \in 1..Len(fsDoc.content.layers) :
                /\ fsDoc.content.layers[k].name = layerNames[n]
                /\ fsDoc.content.layers[k].data = << BuildGids(layerNames[n]) >>
                /\ IF NamedIn(fsDoc0.content, layerNames[n])
                   THEN /\ k <= Len(fsDoc0.content.layers)
                        /\ fsDoc0.content.layers[k].name = layerNames[n]
                   ELSE k > Len(fsDoc0.content.layers)

WithoutLayers(doc) == [doc EXCEPT !.layers = << >>]

WithoutGids(layer) == [layer EXCEPT !.data = [d \in 1..Len(@) |-> Len(@[d])]]

InBuild(lname) == \E n \in 1..Len(layerNames) : layerNames[n] = lname

\* C12: a merge changes nothing in the existing document but the gid values of
\* the cells of layers whose names are in the build, and the layer blocks it
\* appends: the root attributes and the tileset entries are the same, every
\* old layer is in its place with its attributes and its number of cells, a
\* layer whose name is not in the build is identical, and every block after
\* the old ones is a layer of the build the document did not have.
C12_MergeFrame ==
    MergedRun =>
        LET old == fsDoc0.content
            new == fsDoc.content
        IN  /\ WithoutLayers(new) = WithoutLayers(old)
            /\ Len(new.layers) >= Len(old.layers)
            /\ \A k \in 1..Len(old.layers) :
                  /\ WithoutGids(new.layers[k]) = WithoutGids(old.layers[k])
                  /\ ~InBuild(old.layers[k].name) => new.layers[k] = old.layers[k]
            /\ \A k \in (Len(old.layers) + 1)..Len(new.layers) :
                  /\ InBuild(new.layers[k].name)
                  /\ ~NamedIn(old, new.layers[k].name)

\* a document with the layers Walls and Extra merged with a build of Floors
\* and Walls: Walls rewritten, Extra kept, Floors appended
C12_Witness ==
    /\ MergedRun
    /\ run = 1
    /\ layerNames = <<"Floors", "Walls">>
    /\ NamedIn(fsDoc0.content, "Extra")
    /\ NamedIn(fsDoc0.content, "Walls")
    /\ Len(fsDoc.content.layers) = 3
    /\ fsDoc.content.layers[1] # fsDoc0.content.layers[1]

\* C13: a merge run over the document a run without merging has just written
\* from the same inputs returns True and leaves a document with the same
\* layers holding, cell for cell, the same gids.
C13_MergeIdempotent ==
    run = 2 =>
        /\ pc \notin {"failed", "crashed"}
        /\ pc = "done" =>
              /\ Len(fsDoc.content.layers) = Len(firstDoc.content.layers)
              /\ \A k \in 1..Len(firstDoc.content.layers) :
                    /\ fsDoc.content.layers[k].name = firstDoc.content.layers[k].name
                    /\ fsDoc.content.layers[k].data = firstDoc.content.layers[k].data

\* a second run over two layers of 2 cells, one of them with a turned tile
C13_Witness ==
    /\ run = 2
    /\ pc = "done"
    /\ layerNames = <<"Floors", "Walls">>
    /\ layerWidth * layerHeight = 2
    /\ \E idx \in 0..1 : layerDict["Floors"][idx][2] # 0
    /\ fsDoc.content.layers[1].data = << BuildGids("Floors") >>

\* --------------------------------------------------------------------------
\* The checks before the build
\* --------------------------------------------------------------------------
\* an output file is there and neither flag is set, or both flags are set
OutputConflict ==
    \/ mergeExisting /\ overwriteExisting
    \/ (fsAtlas0.exists \/ fsDoc0.exists) /\ ~mergeExisting /\ ~overwriteExisting

NothingRead ==
    /\ layerFiles = << >>
    /\ layerNames = << >>
    /\ imageSize = <<0, 0>>
    /\ imageDict = << >>

\* C14: with an output file present and neither mergeExisting nor
\* overwriteExisting set, or with both set, ProcessInputs returns False from
\* CheckExistingFiles, its first step: no layer has been read and the two
\* output files are as they were.
C14_OutputConflictFailsFirst ==
    (OutputConflict /\ pc # "CheckExistingFiles")
        => /\ pc = "failed"
           /\ failedIn = "CheckExistingFiles"
           /\ NothingRead
           /\ OutputsUntouched

\* the document is there, the atlas is not, no flag is set
C14_Witness ==
    /\ pc = "failed"
    /\ failedIn = "CheckExistingFiles"
    /\ fsDoc0.exists
    /\ ~fsAtlas0.exists
    /\ ~mergeExisting
    /\ ~overwriteExisting
    /\ fsDoc = fsDoc0

\* the listed files that are layers (line 245)
ListedLayers == SelectSeq(fileList, LAMBDA f : f # OutTilesetFile)

MissingInput == \E k \in 1..Len(fileList) : ~FileExists(fileList[k], inputImage, fsAtlas0)

SizeOfInput(f) == LoadCroppedImage(inputImage[f].content).size

IndivisibleInput ==
    /\ ~MissingInput
    /\ \/ SizeOfInput(ListedLayers[1])[1] % tileWidth # 0
       \/ SizeOfInput(ListedLayers[1])[2] % tileHeight # 0

MismatchedInput ==
    /\ ~MissingInput
    /\ \E k \in 2..Len(ListedLayers) : SizeOfInput(ListedLayers[k]) # SizeOfInput(ListedLayers[1])

\* C15: when a listed input file does not exist, the first layer image is not
\* a whole number of tiles wide or high, or another layer image has other
\* dimensions than the first, ProcessInputs does not get to CreateTileset: it
\* ends returning False from one of its checks, with no atlas built and the
\* two output files as they were.
C15_InvalidInputFails ==
    (MissingInput \/ IndivisibleInput \/ MismatchedInput)
        => /\ pc \in {"CheckExistingFiles", "CreateLayerFiles", "CheckNavArguments",
                      "CheckImageSizes", "failed"}
           /\ pc = "failed" => failedIn \in {"CheckExistingFiles", "CreateLayerFiles",
                                             "CheckNavArguments", "CheckImageSizes"}
           /\ imageDict = << >>
           /\ tilesetSize = <<0, 0>>
           /\ OutputsUntouched

\* a second layer of another size than the first, refused with the old atlas
\* in place
C15_Witness ==
    /\ pc = "failed"
    /\ failedIn = "CheckImageSizes"
    /\ MismatchedInput
    /\ ~IndivisibleInput
    /\ fsAtlas0.exists
    /\ fsAtlas = fsAtlas0

\* --------------------------------------------------------------------------
\* The documents written
\* --------------------------------------------------------------------------
\* a run that has written a new document, and returned True
FreshRun == pc = "done" /\ ~(mergeExisting /\ fsDoc0.exists)

\* the listed file the grid of the layer lname was read from: the last of
\* that name
GridFile(lname) ==
    layerFiles[CHOOSE k \in 1..Len(layerFiles) :
                  /\ LayerNameOf(layerFiles[k]) = lname
                  /\ \A j \in (k + 1)..Len(layerFiles) : LayerNameOf(layerFiles[j]) # lname]

\* the tile of the layer image at column col, row row
CellImage(lname, col, row) ==
    Crop(inputImage[GridFile(lname)].content,
         <<col * tileWidth, row * tileHeight, (col + 1) * tileWidth, (row + 1) * tileHeight>>)

\* C16: a document CreateTiledFile produced has the grid size as its width and
\* height and the tile size as its tilewidth and tileheight, one tileset with
\* firstgid 1 whose image has the pixel dimensions of the packed canvas, and
\* one layer block per layer of the build, in the order of the file list, each
\* with width x height gids, the gid at row x width + col being the one of the
\* cell at column col, row row.
C16_FreshDocument ==
    FreshRun =>
        LET doc == fsDoc.content
        IN  /\ ParseInt(doc.width) = BigOf(imageSize[1] \div tileWidth)
            /\ ParseInt(doc.height) = BigOf(imageSize[2] \div tileHeight)
            /\ ParseInt(doc.tilewidth) = BigOf(tileWidth)
            /\ ParseInt(doc.tileheight) = BigOf(tileHeight)
            /\ Len(doc.tilesets) = 1
            /\ ParseInt(doc.tilesets[1].firstgid) = BigOf(1)
            /\ Len(doc.tilesets[1].images) = 1
            /\ ParseInt(doc.tilesets[1].images[1].width) = BigOf(fsAtlas.content.size[1])
            /\ ParseInt(doc.tilesets[1].images[1].height) = BigOf(fsAtlas.content.size[2])
            /\ Len(doc.layers) = Len(ListedLayers)
            /\ \A k \in 1..Len(doc.layers) :
                  /\ doc.layers[k].name = LayerNameOf(ListedLayers[k])
                  /\ Len(doc.layers[k].data) = 1
                  /\ Len(doc.layers[k].data[1]) = layerWidth * layerHeight
                  /\ \A row \in 0..(layerHeight - 1) : \A col \in 0..(layerWidth - 1) :
                        LET cell == layerDict[doc.layers[k].name][row * layerWidth + col]
                        IN  /\ doc.layers[k].data[1][row * layerWidth + col + 1]
                                  = GidAttribute(cell)
                            /\ FindImageTransformation(
                                  CellImage(doc.layers[k].name, col, row),
                                  imageDict[cell[1]]) = cell[2]

\* two layers of 2 x 2 cells written in the order they were listed
C16_Witness ==
    /\ FreshRun
    /\ run = 1
    /\ fileList = <<"Floors.png", "Walls.png">>
    /\ layerWidth = 2
    /\ layerHeight = 2
    /\ Len(fsDoc.content.layers) = 2
    /\ fsDoc.content.layers[1].data[1][2] # fsDoc.content.layers[1].data[1][3]

\* no two layer blocks of the document share a name
UniqueLayerNames(doc) ==
    \A j, k \in 1..Len(doc.layers) :
        doc.layers[j].name = doc.layers[k].name => j = k

\* C17: in every document a run that returned True has written, fresh or
\* merged into a document whose layer names were distinct, the layer names
\* are distinct.
C17_LayerNamesUnique ==
    (/\ pc = "done"
     /\ (mergeExisting /\ fsDoc0.exists) => UniqueLayerNames(fsDoc0.content))
        => UniqueLayerNames(fsDoc.content)

\* ---- ExportTileset on any tile count -------------------------------------
\* MapTiler.ExportTileset, lines 551-561: the canvas in tiles
PK_ExportTileset ==
    /\ pkPc = "call"
    /\ pkDims' = TilesetDims(pkTileCount, forceSquareTileset)
    /\ pkPc' = "MapTiler"
    /\ UNCHANGED <<pkTileCount, fnVars, cbVars, navVars, xfVars, tsVars, cfgVars, gidVars, buildVars>>

\* CreateTiledFiles.ExportTileset, lines 228-238
PK_CTF_ExportTileset ==
    /\ pkPc = "call"
    /\ pkDims' = CTF_TilesetDims(pkTileCount, forceSquareTileset)
    /\ pkPc' = "CreateTiledFiles"
    /\ UNCHANGED <<pkTileCount, fnVars, cbVars, navVars, xfVars, tsVars, cfgVars, gidVars, buildVars>>

\* imageDict holds the empty tile from the start, so the count is at least 1
InitPacker ==
    /\ XfIdle
    /\ TsIdle
    /\ CfgIdle
    /\ GidIdle
    /\ BuildRestIdle
    /\ FnIdle
    /\ CbIdle
    /\ NavIdle
    /\ forceSquareTileset \in BOOLEAN
    /\ pkTileCount \in 1..MaxTileCount
    /\ pkDims = <<0, 0>>
    /\ pkPc = "call"

NextPacker == PK_ExportTileset \/ PK_CTF_ExportTileset

SpecPacker == InitPacker /\ [][NextPacker]_vars

\* --------------------------------------------------------------------------
\* The packer
\* --------------------------------------------------------------------------
Packed == pkPc \in {"MapTiler", "CreateTiledFiles"}

RECURSIVE IsPowerOfTwo(_)
IsPowerOfTwo(n) == n = 1 \/ (n > 1 /\ n % 2 = 0 /\ IsPowerOfTwo(n \div 2))

\* the branch of ExportTileset that leaves the canvas D x D
SquareBranch == ~forceSquareTileset

\* C18: for every tile count of at least 1 and on both branches of
\* ExportTileset the canvas of D x H tiles holds every tile, D x H >= U, and D
\* is the smallest power of two with D x D >= U; the branch without the
\* height loop leaves the canvas D x D.
C18_PackerInvariant ==
    Packed =>
        LET D == pkDims[1]
            H == pkDims[2]
        IN  /\ D * H >= pkTileCount
            /\ IsPowerOfTwo(D)
            /\ D * D >= pkTileCount
            /\ \A d \in 1..(D - 1) : IsPowerOfTwo(d) => d * d < pkTileCount
            /\ SquareBranch => H = D

\* the height loop has run and left a canvas lower than it is wide
C18_Witness ==
    /\ Packed
    /\ pkTileCount = 5
    /\ pkDims = <<4, 2>>

\* the halving sequence D, D/2, D/4, ... of integer floor divisions
RECURSIVE HalvingSequence(_)
HalvingSequence(d) == IF d = 0 THEN {0} ELSE {d} \cup HalvingSequence(d \div 2)

\* C19: on the branch with the height loop, for every tile count of at least
\* 1, the height the loop ends with is the smallest value of the halving
\* sequence D, D/2, D/4, ... with H x D >= U, and is at least 1.
C19_SmallestHeight ==
    (Packed /\ ~SquareBranch) =>
        LET D == pkDims[1]
            H == pkDims[2]
        IN  /\ H >= 1
            /\ H \in HalvingSequence(D)
            /\ H * D >= pkTileCount
            /\ \A h \in HalvingSequence(D) : h * D >= pkTileCount => H <= h

\* C20: with forceSquareTileset set the canvas is D x D tiles.
C20_ForcedSquare ==
    (Packed /\ forceSquareTileset) => pkDims[1] = pkDims[2]

\* ---- FindNextPowerOfTwo on any argument ----------------------------------
\* a mutant step: k grows by one
NextK_Increment(k) == k + 1

\* line 546: k = k * 2
NextK(k) == k * 2

\* line 545, the loop test true: one iteration
FN_Double ==
    /\ fnPc = "loop"
    /\ fnK < fnN
    /\ fnK' = NextK(fnK)
    /\ UNCHANGED <<fnN, fnPc, pkVars, cbVars, navVars, xfVars, tsVars, cfgVars, gidVars, buildVars>>

\* line 545, the loop test false, and line 547: return k
FN_Return ==
    /\ fnPc = "loop"
    /\ ~(fnK < fnN)
    /\ fnPc' = "returned"
    /\ UNCHANGED <<fnN, fnK, pkVars, cbVars, navVars, xfVars, tsVars, cfgVars, gidVars, buildVars>>

\* line 544: k = 1
InitPow2 ==
    /\ XfIdle
    /\ TsIdle
    /\ CfgIdle
    /\ GidIdle
    /\ BuildIdle
    /\ PkIdle
    /\ CbIdle
    /\ NavIdle
    /\ fnN \in 1..MaxPow2Arg
    /\ fnK = 1
    /\ fnPc = "loop"

NextPow2 == FN_Double \/ FN_Return

SpecPow2 == InitPow2 /\ [][NextPow2]_vars /\ WF_vars(NextPow2)

\* --------------------------------------------------------------------------
\* FindNextPowerOfTwo
\* --------------------------------------------------------------------------
\* the value returned is the smallest power of two that is at least N
SmallestPowerOfTwo ==
    fnPc = "returned" =>
        /\ IsPowerOfTwo(fnK)
        /\ fnK >= fnN
        /\ \A e \in 0..14 : 2 ^ e >= fnN => fnK <= 2 ^ e
        /\ fnN = 1 => fnK = 1
        /\ fnN = 5 => fnK = 8

\* C21: for every N in 1..10000 FindNextPowerOfTwo returns, and what it
\* returns is the smallest power of two that is at least N: 1 for 1, 8 for 5.
\* Every k of the loop is a power of two reached by doubling from 1.
C21_FindNextPowerOfTwo ==
    /\ [](IsPowerOfTwo(fnK) /\ SmallestPowerOfTwo)
    /\ <>(fnPc = "returned")

\* the call with 5 has returned 8
C21_Witness ==
    /\ fnPc = "returned"
    /\ fnN = 5
    /\ fnK = 8

\* --------------------------------------------------------------------------
\* The atlas image
\* --------------------------------------------------------------------------
\* ExportTileset has saved the atlas of this run
AtlasSaved == pc \in {"ExportTiledFile", "done"}

\* C22: the atlas saved measures D x tileWidth by H x tileHeight pixels, H = D
\* on the branch without the height loop, and the tile with index i is found
\* in it with its top-left pixel at x = (i mod D) x tileWidth,
\* y = (i div D) x tileHeight; the empty tile is at (0, 0), and 3 tiles make a
\* canvas of 2 x 2 tiles.
C22_TilePlacement ==
    AtlasSaved =>
        LET U == Cardinality(DOMAIN imageDict)
            D == FindNextPowerOfTwoOfSqrt(U)
            H == fsAtlas.content.size[2] \div tileHeight
        IN  /\ fsAtlas.exists
            /\ fsAtlas.content.size = <<D * tileWidth, H * tileHeight>>
            /\ <<D, H>> = TilesetDims(U, forceSquareTileset)
            /\ ~forceSquareTileset => H = D
            /\ U = 3 => <<D, H>> = <<2, 2>>
            /\ \A i \in DOMAIN imageDict :
                  LET x == (i % D) * tileWidth
                      y == (i \div D) * tileHeight
                  IN  Crop(fsAtlas.content, <<x, y, x + tileWidth, y + tileHeight>>)
                          = imageDict[i]
            /\ IsBlank(Crop(fsAtlas.content, <<0, 0, tileWidth, tileHeight>>))

\* three tiles, the third one in the second row of the canvas
C22_Witness ==
    /\ AtlasSaved
    /\ Cardinality(DOMAIN imageDict) = 3
    /\ fsAtlas.content.size = <<2 * tileWidth, 2 * tileHeight>>
    /\ ~IsBlank(Crop(fsAtlas.content, <<0, tileHeight, tileWidth, 2 * tileHeight>>))
    /\ imageDict[1] # imageDict[2]

\* C28: for every tile count of at least 1 and on both branches of
\* ExportTileset, every atlas index is pasted into a cell inside the canvas of
\* D x H tiles, and no two indices into the same cell.
C28_EveryTileInItsOwnCell ==
    Packed =>
        LET D == pkDims[1]
            H == pkDims[2]
        IN  \A i \in 0..(pkTileCount - 1) :
                /\ 0 <= PasteCell(i, D)[1] /\ PasteCell(i, D)[1] < D
                /\ 0 <= PasteCell(i, D)[2] /\ PasteCell(i, D)[2] < H
                /\ \A j \in 0..(pkTileCount - 1) :
                      PasteCell(i, D) = PasteCell(j, D) => i = j

\* a canvas lower than it is wide, its last tile in the second row
C28_Witness ==
    /\ Packed
    /\ pkTileCount = 7
    /\ pkDims = <<4, 2>>
    /\ PasteCell(6, pkDims[1]) = <<2, 1>>

\* --------------------------------------------------------------------------
\* Self-consistency of the equivalence test
\* --------------------------------------------------------------------------
XfReturned == xfPc \in {"returned", "returnedCTF"}

\* the 8 transforms of the tile give 8 different images
NoSymmetry(im) == Cardinality({ ApplyTransform(im, t) : t \in 0..7 }) = 8

\* C23 as stated: for every code t and every tile, the candidate being the
\* tile transformed by t, FindImageTransformation(candidate, tile) is t.
C23_SelfConsistentEveryTile ==
    XfReturned =>
        \A t \in 0..7 : im1org = ApplyTransform(im2org, t) => xfResult = t

\* C23 amended: for every code t and every tile, the candidate being the tile
\* transformed by t, FindImageTransformation(candidate, tile) is the lowest
\* code u whose transform of the tile is the same image as the transform by
\* t; it is t itself when no lower code gives that image, as for every code
\* of a tile whose 8 transforms differ.
C23_SelfConsistent ==
    XfReturned =>
        \A t \in 0..7 :
            im1org = ApplyTransform(im2org, t) =>
                /\ xfResult \in 0..t
                /\ ApplyTransform(im2org, xfResult) = ApplyTransform(im2org, t)
                /\ \A u \in 0..(xfResult - 1) :
                      ApplyTransform(im2org, u) # ApplyTransform(im2org, t)
                /\ NoSymmetry(im2org) => xfResult = t

\* a tile without symmetry, mirrored and turned once, is recognised as code 5
C23_Witness ==
    /\ xfPc = "returned"
    /\ NoSymmetry(im2org)
    /\ im1org = ApplyTransform(im2org, 5)
    /\ xfResult = 5

\* --------------------------------------------------------------------------
\* A tile and its quarter turn
\* --------------------------------------------------------------------------
PaletteQuarterTurn == [a \in Palette |-> QuarterTurn(a)]

\* C24: when the first two tiles CreateTileset reads are A and B, B being A
\* turned by 90 degrees (and not A itself), A is recorded with code 0 and B
\* with the atlas index of A and code 1; and wherever a tile recorded with
\* code 0 and its quarter turn are both read, the turned one is recorded with
\* the same index and code 1.
C24_QuarterTurnShared ==
    TsRunning =>
        /\ (/\ Len(tsCells) >= 2
            /\ tsCells[2][3] = PaletteQuarterTurn[tsCells[1][3]]
            /\ tsCells[2][3] # tsCells[1][3])
              => /\ Recorded(1)[2] = 0
                 /\ imageDict[Recorded(1)[1]] = tsCells[1][3]
                 /\ Recorded(2) = <<Recorded(1)[1], 1>>
        /\ \A j \in 1..Len(tsCells) : \A k \in 1..Len(tsCells) :
              (/\ tsCells[k][3] = PaletteQuarterTurn[tsCells[j][3]]
               /\ tsCells[k][3] # tsCells[j][3]
               /\ Recorded(j)[2] = 0)
                  => Recorded(k) = <<Recorded(j)[1], 1>>

\* A then its quarter turn: one atlas entry besides the empty tile
C24_Witness ==
    /\ TsRunning
    /\ Len(tsCells) = 2
    /\ tsCells[1][3] = TileA
    /\ tsCells[2][3] = QuarterTurn(TileA)
    /\ Recorded(1) = <<1, 0>>
    /\ Recorded(2) = <<1, 1>>
    /\ Cardinality(DOMAIN imageDict) = 2

\* ---- CreateTiledFiles.CreateTileset beside MapTiler.CreateTileset --------
\* CreateTiledFiles.CreateTileset lines 139-146
CTF_TilesetStart(w, h) ==
    [imageDict |-> (0 :> EmptyTile(w, h)),
     layerDict |-> << >>,
     subimgIdx |-> 1]

\* lines 156-163: for desIdx in self.imageDict.keys(), every entry, in
\* ascending key order
RECURSIVE CTF_ScanFrom(_, _, _)
CTF_ScanFrom(subimg, dict, desIdx) ==
    IF \A k \in DOMAIN dict : k < desIdx THEN <<None, None>>
    ELSE IF desIdx \notin DOMAIN dict THEN CTF_ScanFrom(subimg, dict, desIdx + 1)
    ELSE LET xForm == CTF_FindImageTransformation(subimg, dict[desIdx])
         IN  IF xForm # None THEN <<desIdx, xForm>>
             ELSE CTF_ScanFrom(subimg, dict, desIdx + 1)

\* lines 152-170: the body of the loop over the cells
CTF_CellStep(st, lname, idx, subimg) ==
    LET scan == CTF_ScanFrom(subimg, st.imageDict, 0)
    IN  IF scan[1] # None
        THEN [st EXCEPT !.layerDict[lname] = Put(@, idx, scan)]
        ELSE [imageDict |-> Put(st.imageDict, st.subimgIdx, subimg),
              layerDict |-> [st.layerDict EXCEPT ![lname] = Put(@, idx, <<st.subimgIdx, 0>>)],
              subimgIdx |-> st.subimgIdx + 1]

CtfState == [imageDict |-> ctfImageDict, layerDict |-> ctfLayerDict,
             subimgIdx |-> ctfSubimgIdx]

CtfAssign(st) ==
    /\ ctfImageDict' = st.imageDict
    /\ ctfLayerDict' = st.layerDict
    /\ ctfSubimgIdx' = st.subimgIdx

\* both builders start
CB_Begin ==
    /\ tsPc = "begin"
    /\ TsAssign(TilesetStart(tileWidth, tileHeight))
    /\ CtfAssign(CTF_TilesetStart(tileWidth, tileHeight))
    /\ tsLayer' = 1
    /\ tsIdx' = 0
    /\ tsPc' = "layer"
    /\ UNCHANGED <<tsCells, cfgVars, xfVars, gidVars, buildVars, pkVars, fnVars, navVars>>

\* both builders open the next layer
CB_OpenLayer ==
    /\ tsPc = "layer"
    /\ tsLayer <= Len(layerFiles)
    /\ TsAssign(OpenLayer(TsState, LayerNameOf(layerFiles[tsLayer])))
    /\ CtfAssign([CtfState EXCEPT !.layerDict = Put(@, LayerNameOf(layerFiles[tsLayer]), << >>)])
    /\ tsIdx' = 0
    /\ tsPc' = IF layerTiles = 0 THEN "layer" ELSE "cell"
    /\ tsLayer' = IF layerTiles = 0 THEN tsLayer + 1 ELSE tsLayer
    /\ UNCHANGED <<tsCells, cfgVars, xfVars, gidVars, buildVars, pkVars, fnVars, navVars>>

\* both builders read the same cell
CB_Cell ==
    /\ tsPc = "cell"
    /\ \E subimg \in Palette :
          /\ TsAssign(CellStep(TsState, LayerNameOf(layerFiles[tsLayer]), tsIdx, subimg))
          /\ CtfAssign(CTF_CellStep(CtfState, LayerNameOf(layerFiles[tsLayer]), tsIdx, subimg))
          /\ tsCells' = Append(tsCells, <<tsLayer, tsIdx, subimg>>)
    /\ IF tsIdx + 1 < layerTiles
       THEN tsIdx' = tsIdx + 1 /\ UNCHANGED <<tsLayer, tsPc>>
       ELSE tsIdx' = 0 /\ tsLayer' = tsLayer + 1 /\ tsPc' = "layer"
    /\ UNCHANGED <<cfgVars, xfVars, gidVars, buildVars, pkVars, fnVars, navVars>>

\* both builders return True
CB_Return ==
    /\ tsPc = "layer"
    /\ tsLayer > Len(layerFiles)
    /\ tsPc' = "done"
    /\ UNCHANGED <<imageDict, layerDict, lastTileMatchIndex, subimgIdx, cbVars,
                   tsLayer, tsIdx, tsCells, cfgVars, xfVars, gidVars, buildVars, pkVars, fnVars, navVars>>

InitCache == InitTileset

NextCache == CB_Begin \/ CB_OpenLayer \/ CB_Cell \/ CB_Return

SpecCache == InitCache /\ [][NextCache]_vars

PaletteApply == [a \in Palette |-> [t \in 0..7 |-> ApplyTransform(a, t)]]

\* the pair recorded for every cell read so far: the atlas tile transformed by
\* the code is the cell's tile, no lower code does that, and a transparent
\* cell has (0, 0)
C26_RecordedPairs ==
    TsRunning =>
        \A n \in 1..Len(tsCells) :
            LET i    == Recorded(n)[1]
                t    == Recorded(n)[2]
                tile == tsCells[n][3]
            IN  /\ i \in DOMAIN imageDict
                /\ t \in 0..7
                /\ PaletteApply[imageDict[i]][t] = tile
                /\ \A u \in 0..(t - 1) : PaletteApply[imageDict[i]][u] # tile
                /\ IsBlank(tile) => (i = 0 /\ t = 0)

\* a step that reads a cell: the atlas is left as it is when the tile matches
\* an entry, and grows by the tile at index U, recorded as (U, 0), when not
C26_CellStep ==
    (TsRunning /\ Len(tsCells') = Len(tsCells) + 1) =>
        LET c    == tsCells'[Len(tsCells')]
            tile == c[3]
            U    == Cardinality(DOMAIN imageDict)
            rec  == layerDict'[LayerNameOf(layerFiles[c[1]])][c[2]]
        IN  IF \E i \in DOMAIN imageDict : PaletteEquivalent[tile][imageDict[i]]
            THEN /\ imageDict' = imageDict
                 /\ PaletteEquivalent[tile][imageDict[rec[1]]]
            ELSE /\ DOMAIN imageDict' = (DOMAIN imageDict) \cup {U}
                 /\ U \notin DOMAIN imageDict
                 /\ imageDict'[U] = tile
                 /\ \A k \in DOMAIN imageDict : imageDict'[k] = imageDict[k]
                 /\ rec = <<U, 0>>

\* C26: for every cell CreateTileset has read, atlas tile i transformed by
\* code t is the cell's tile and t is the lowest such code; a tile that
\* matches an atlas entry leaves the atlas unchanged, a tile that matches none
\* is added at index U and recorded as (U, 0); a transparent cell is recorded
\* as (0, 0).
C26_CellRecords == [](C26_RecordedPairs) /\ [][C26_CellStep]_vars

\* an inserted tile, a tile matched through a turn, and a transparent cell
C26_Witness ==
    /\ tsPc = "done"
    /\ Len(tsCells) = 4
    /\ tsCells[1][3] = ROTATE_90(TileA)
    /\ tsCells[2][3] = EmptyTile(2, 2)
    /\ tsCells[3][3] = TileA
    /\ tsCells[4][3] = TileB
    /\ Recorded(1) = <<1, 0>>
    /\ Recorded(2) = <<0, 0>>
    /\ Recorded(3) = <<1, 3>>
    /\ Recorded(4) = <<2, 0>>

\* --------------------------------------------------------------------------
\* The cache of CreateTileset
\* --------------------------------------------------------------------------
C27_CacheState ==
    TsRunning =>
        /\ lastTileMatchIndex \in DOMAIN imageDict
        /\ Len(tsCells) = 0 => lastTileMatchIndex = 0
        /\ Len(tsCells) > 0 => lastTileMatchIndex = Recorded(Len(tsCells))[1]

\* a step that reads no cell (the head of a layer, the return) leaves the cache
C27_CacheCarried ==
    (TsRunning /\ tsCells' = tsCells) => lastTileMatchIndex' = lastTileMatchIndex

\* C27: lastTileMatchIndex is 0 until the first cell is read, is always the
\* index of an atlas entry, is after every cell the atlas index recorded for
\* that cell, and is carried unchanged from one layer to the next.
C27_CacheInvariant == [](C27_CacheState) /\ [][C27_CacheCarried]_vars

\* the second layer is opened with the cache on an entry the first layer added
C27_Witness ==
    /\ tsPc = "cell"
    /\ tsLayer = 2
    /\ tsIdx = 0
    /\ Len(tsCells) = 2
    /\ lastTileMatchIndex = 2
    /\ "Walls" \in DOMAIN layerDict

\* ---- CreateNavData ---------------------------------------------------------
\* a list of cell indices in ascending order, as iterating a dict with the
\* keys 0..n-1 gives them
RECURSIVE Ascending(_)
Ascending(S) ==
    IF S = {} THEN << >>
    ELSE LET m == CHOOSE x \in S : \A y \in S : x <= y
         IN  <<m>> \o Ascending(S \ {m})

InList(x, list) == \E k \in 1..Len(list) : list[k] = x

\* list.remove(x): the first occurrence goes
Remove(list, x) ==
    LET k == CHOOSE j \in 1..Len(list) : list[j] = x /\ \A i \in 1..(j - 1) : list[i] # x
    IN  SubSeq(list, 1, k - 1) \o SubSeq(list, k + 1, Len(list))

\* GetOccupiedTiles, lines 299-307: the cells whose tile index is above 0
GetOccupiedTiles(lDict, layerName) ==
    Ascending({ idx \in DOMAIN lDict[layerName] : lDict[layerName][idx][1] > 0 })

\* CalculateImageRowCell: <<col, row>>
CalculateImageRowCell(index, lw) == <<index % lw, index \div lw>>

CalculateImageIndexFromCell(col, row, lw) == row * lw + col

\* lines 343-346
Adjacent(idx, lw) ==
    LET x == CalculateImageRowCell(idx, lw)[1]
        y == CalculateImageRowCell(idx, lw)[2]
    IN  << CalculateImageIndexFromCell(x, y + 1, lw),
           CalculateImageIndexFromCell(x, y - 1, lw),
           CalculateImageIndexFromCell(x + 1, y, lw),
           CalculateImageIndexFromCell(x - 1, y, lw) >>

\* lines 347-359: for adj in adjacent, the queue after the loop
RECURSIVE ExpandQueue(_, _, _, _, _, _, _)
ExpandQueue(queue, adjacent, k, idx, roomTiles, walkable, portals) ==
    IF k > Len(adjacent) THEN queue
    ELSE LET adj == adjacent[k]
         IN  IF \/ InList(adj, roomTiles)
                \/ ~InList(adj, walkable)
                \/ InList(adj, queue)
                \/ (idx \in portals /\ adj \in portals)
             THEN ExpandQueue(queue, adjacent, k + 1, idx, roomTiles, walkable, portals)
             ELSE ExpandQueue(Append(queue, adj), adjacent, k + 1, idx, roomTiles,
                              walkable, portals)

\* the colours of the tiles CreateBlockingLayer and CreateWalkableLayer add
BlockedColor == 1
WalkColor == 2

\* self.outNavPrefix + suffix, with the default prefix NAV_
NavPrefixed(suffix) ==
    CASE suffix = "Blocked"  -> "NAV_Blocked"
      [] suffix = "Walkable" -> "NAV_Walkable"
      [] suffix = "Rooms"    -> "NAV_Rooms"

\* CreateBlockingLayer, lines 401-415
NAV_CreateBlockingLayer ==
    /\ navPc = "CreateBlockingLayer"
    /\ LET wallTiles      == GetOccupiedTiles(layerDict, navLayers.wall)
           blockedTileIdx == Cardinality(DOMAIN imageDict)
       IN  /\ imageDict' = Put(imageDict, blockedTileIdx,
                               ImageNew(<<tileWidth, tileHeight>>, BlockedColor))
           /\ layerDict' = Put(layerDict, NavPrefixed("Blocked"),
                               [idx \in 0..(layerTiles - 1) |->
                                   IF InList(idx, wallTiles) THEN <<blockedTileIdx, 0>>
                                   ELSE <<0, 0>>])
           /\ layerNames' = Append(layerNames, NavPrefixed("Blocked"))
    /\ navPc' = "CreateWalkableLayer"
    /\ UNCHANGED <<navWalkable, navPortals, navQueue, navRoomTiles, navRooms, navError,
                   lastTileMatchIndex, subimgIdx, tsLayer, tsIdx, tsCells, tsPc,
                   imageSize, layerWidth, layerHeight, tilesetSize, createNavData,
                   argVars, diskVars, runVars, pc, failedIn,
                   cfgVars, xfVars, gidVars, pkVars, fnVars, cbVars>>

\* CreateWalkableLayer, lines 381-399
NAV_CreateWalkableLayer ==
    /\ navPc = "CreateWalkableLayer"
    /\ LET floorTiles  == GetOccupiedTiles(layerDict, navLayers.floor)
           wallTiles   == GetOccupiedTiles(layerDict, navLayers.wall)
           walkable    == SelectSeq(floorTiles, LAMBDA idx : ~InList(idx, wallTiles))
           walkTileIdx == Cardinality(DOMAIN imageDict)
       IN  /\ imageDict' = Put(imageDict, walkTileIdx,
                               ImageNew(<<tileWidth, tileHeight>>, WalkColor))
           /\ layerDict' = Put(layerDict, NavPrefixed("Walkable"),
                               [idx \in 0..(layerTiles - 1) |->
                                   IF InList(idx, walkable) THEN <<walkTileIdx, 0>>
                                   ELSE <<0, 0>>])
           /\ layerNames' = Append(layerNames, NavPrefixed("Walkable"))
    /\ navPc' = "CreateRoomsLayer"
    /\ UNCHANGED <<navWalkable, navPortals, navQueue, navRoomTiles, navRooms, navError,
                   lastTileMatchIndex, subimgIdx, tsLayer, tsIdx, tsCells, tsPc,
                   imageSize, layerWidth, layerHeight, tilesetSize, createNavData,
                   argVars, diskVars, runVars, pc, failedIn,
                   cfgVars, xfVars, gidVars, pkVars, fnVars, cbVars>>

\* what the flood fill steps leave alone
navRest == <<tsVars, selfVars, argVars, diskVars, runVars, pc, failedIn,
             cfgVars, xfVars, gidVars, pkVars, fnVars, cbVars>>

\* CreateRoomsLayer, lines 321-330: self.layerDict[self.navDoorLayer] raises
\* KeyError when the door layer is not a layer of the build
NAV_RoomsBegin ==
    /\ navPc = "CreateRoomsLayer"
    /\ IF navLayers.door \notin DOMAIN layerDict
       THEN /\ navPc' = "crashed"
            /\ navError' = "KeyError"
            /\ UNCHANGED <<navWalkable, navPortals, navRooms>>
       ELSE LET floorTiles  == GetOccupiedTiles(layerDict, navLayers.floor)
                wallTiles   == GetOccupiedTiles(layerDict, navLayers.wall)
                portalTiles == GetOccupiedTiles(layerDict, navLayers.portal)
                doorTiles   == GetOccupiedTiles(layerDict, navLayers.door)
                allPortals  == { portalTiles[k] : k \in 1..Len(portalTiles) }
                                  \cup { doorTiles[k] : k \in 1..Len(doorTiles) }
            IN  /\ navWalkable' = SelectSeq(floorTiles, LAMBDA idx : ~InList(idx, wallTiles))
                /\ navPortals' = { idx \in allPortals : ~InList(idx, wallTiles) }
                /\ navRooms' = << >>
                /\ navPc' = "fill"
                /\ UNCHANGED navError
    /\ UNCHANGED <<navQueue, navRoomTiles, navRest>>

\* lines 332-336: while len(walkable) > 0, a room is started
NAV_StartRoom ==
    /\ navPc = "fill"
    /\ Len(navWalkable) > 0
    /\ navRoomTiles' = << >>
    /\ navQueue' = << navWalkable[1] >>
    /\ navPc' = "queue"
    /\ UNCHANGED <<navWalkable, navPortals, navRooms, navError, navRest>>

\* lines 337-359: while len(queue) > 0, one cell is taken off the queue
NAV_Visit ==
    /\ navPc = "queue"
    /\ Len(navQueue) > 0
    /\ LET idx       == Head(navQueue)
           roomTiles == Append(navRoomTiles, idx)
       IN  /\ navRoomTiles' = roomTiles
           /\ navQueue' = ExpandQueue(Tail(navQueue), Adjacent(idx, layerWidth), 1, idx,
                                      roomTiles, navWalkable, navPortals)
           /\ navWalkable' = Remove(navWalkable, idx)
    /\ UNCHANGED <<navPortals, navRooms, navPc, navError, navRest>>

\* line 360: rooms.append(roomTiles)
NAV_CloseRoom ==
    /\ navPc = "queue"
    /\ Len(navQueue) = 0
    /\ navRooms' = Append(navRooms, navRoomTiles)
    /\ navPc' = "fill"
    /\ UNCHANGED <<navWalkable, navPortals, navQueue, navRoomTiles, navError, navRest>>

\* the flood fill has ended
NAV_Filled ==
    /\ navPc = "fill"
    /\ Len(navWalkable) = 0
    /\ navPc' = "filled"
    /\ UNCHANGED <<navWalkable, navPortals, navQueue, navRoomTiles, navRooms, navError, navRest>>

\* lines 363-378: self.roomTilesDict is assigned nowhere (self.roomDict is, at
\* line 364), so line 366 raises AttributeError for the first room; without a
\* room the layer is all (0, 0)
NAV_RoomsLayer ==
    /\ navPc = "filled"
    /\ IF Len(navRooms) > 0
       THEN /\ navPc' = "crashed"
            /\ navError' = "AttributeError"
            /\ UNCHANGED <<layerDict, layerNames>>
       ELSE /\ layerDict' = Put(layerDict, NavPrefixed("Rooms"),
                                [idx \in 0..(layerTiles - 1) |-> <<0, 0>>])
            /\ layerNames' = Append(layerNames, NavPrefixed("Rooms"))
            /\ navPc' = "done"
            /\ UNCHANGED navError
    /\ UNCHANGED <<navWalkable, navPortals, navQueue, navRoomTiles, navRooms,
                   imageDict, lastTileMatchIndex, subimgIdx, tsLayer, tsIdx, tsCells, tsPc,
                   imageSize, layerWidth, layerHeight, tilesetSize, createNavData,
                   argVars, diskVars, runVars, pc, failedIn,
                   cfgVars, xfVars, gidVars, pkVars, fnVars, cbVars>>

\* the grids of the CreateNavData runs: <<layerWidth, layerHeight>>
NavGrids == {<<2, 2>>, <<3, 1>>}

NavFiles == <<"Floors.png", "Walls.png", "Portals.png">>

\* the image of a layer whose occupied cells are occ
NavLayerImage(occ, grid) ==
    LayerImage([k \in 1..(grid[1] * grid[2]) |->
                   IF (k - 1) \in occ THEN TileB ELSE EmptyTile(2, 2)],
               grid[1], 2, 2)

\* the atlas CreateTileset leaves for such layers: the empty tile, and the one
\* tile of the occupied cells when there is one
NavAtlas(occupied) ==
    IF occupied = {} THEN (0 :> EmptyTile(2, 2))
    ELSE (0 :> EmptyTile(2, 2)) @@ (1 :> TileB)

\* ProcessInputs about to call CreateNavData (line 839) with the four layer
\* options given and accepted by CheckNavArguments
InitNav ==
    /\ XfIdle
    /\ GidIdle
    /\ PkIdle
    /\ FnIdle
    /\ CbIdle
    /\ \E grid \in NavGrids :
       \E floorOcc \in SUBSET (0..(grid[1] * grid[2] - 1)) :
       \E wallOcc \in SUBSET (0..(grid[1] * grid[2] - 1)) :
       \E portalOcc \in SUBSET (0..(grid[1] * grid[2] - 1)) :
          /\ Cardinality(wallOcc) <= MaxWallTiles
          /\ Cardinality(portalOcc) <= MaxPortalTiles
          /\ inputImage = [f \in {"Floors.png", "Walls.png", "Portals.png"} |->
                             AsFile(NavLayerImage(
                                 CASE f = "Floors.png" -> floorOcc
                                   [] f = "Walls.png"  -> wallOcc
                                   [] OTHER            -> portalOcc, grid))]
          /\ layerWidth = grid[1]
          /\ layerHeight = grid[2]
          /\ layerTiles = grid[1] * grid[2]
          /\ imageSize = <<grid[1] * 2, grid[2] * 2>>
          /\ LET occ  == [n \in {"Floors", "Walls", "Portals"} |->
                             CASE n = "Floors" -> floorOcc
                               [] n = "Walls"  -> wallOcc
                               [] OTHER        -> portalOcc]
             IN  /\ imageDict = NavAtlas(floorOcc \cup wallOcc \cup portalOcc)
                 /\ layerDict = [n \in {"Floors", "Walls", "Portals"} |->
                                    [idx \in 0..(grid[1] * grid[2] - 1) |->
                                        IF idx \in occ[n] THEN <<1, 0>> ELSE <<0, 0>>]]
                 /\ lastTileMatchIndex = layerDict["Portals"][grid[1] * grid[2] - 1][1]
                 /\ subimgIdx = Cardinality(DOMAIN imageDict)
    /\ tsLayer = 0
    /\ tsIdx = 0
    /\ tsCells = << >>
    /\ tsPc = "idle"
    /\ layerFiles = NavFiles
    /\ tileWidth = 2
    /\ tileHeight = 2
    /\ mergeExisting = FALSE
    /\ overwriteExisting = FALSE
    /\ forceSquareTileset = FALSE
    /\ fileList = NavFiles
    /\ navLayers \in { [floor |-> "Floors", wall |-> "Walls", portal |-> "Portals", door |-> d] :
                          d \in {"Floors", "Portals", "Doors"} }
    /\ fsAtlas = NoFile
    /\ fsDoc = NoFile
    /\ fsAtlas0 = NoFile
    /\ fsDoc0 = NoFile
    /\ layerNames = <<"Floors", "Walls", "Portals">>
    /\ tilesetSize = <<0, 0>>
    /\ createNavData = TRUE
    /\ pc = "CreateNavData"
    /\ failedIn = ""
    /\ run = 1
    /\ firstDoc = NoFile
    /\ navWalkable = << >>
    /\ navPortals = {}
    /\ navQueue = << >>
    /\ navRoomTiles = << >>
    /\ navRooms = << >>
    /\ navPc = "CreateBlockingLayer"
    /\ navError = ""

NextNav ==
    \/ NAV_CreateBlockingLayer
    \/ NAV_CreateWalkableLayer
    \/ NAV_RoomsBegin
    \/ NAV_StartRoom
    \/ NAV_Visit
    \/ NAV_CloseRoom
    \/ NAV_Filled
    \/ NAV_RoomsLayer

SpecNav == InitNav /\ [][NextNav]_vars

\* --------------------------------------------------------------------------
\* The rooms
\* --------------------------------------------------------------------------
Occupied(layerName) ==
    { idx \in DOMAIN layerDict[layerName] : layerDict[layerName][idx][1] > 0 }

\* occupied floor cells not covered by a wall
WalkableCells == Occupied(navLayers.floor) \ Occupied(navLayers.wall)

ColOf(idx) == idx % layerWidth
RowOf(idx) == idx \div layerWidth

\* same row and columns differing by 1, or same column and rows differing by 1
GridNeighbours(a, b) ==
    \/ RowOf(a) = RowOf(b) /\ (ColOf(a) - ColOf(b)) \in {0 - 1, 1}
    \/ ColOf(a) = ColOf(b) /\ (RowOf(a) - RowOf(b)) \in {0 - 1, 1}

\* the walkable cells linked to the cells of S by chains of grid neighbours
RECURSIVE LinkedTo(_)
LinkedTo(S) ==
    LET more == { b \in WalkableCells : \E a \in S : GridNeighbours(a, b) }
    IN  IF more \subseteq S THEN S ELSE LinkedTo(S \cup more)

\* how often the cell is listed in the rooms
TimesInRooms(idx) ==
    Cardinality({ <<r, k>> \in (1..Len(navRooms)) \X (0..layerTiles) :
                     k \in 1..Len(navRooms[r]) /\ navRooms[r][k] = idx })

\* C29: when the flood fill of CreateRoomsLayer has ended, every walkable
\* cell is in exactly one room, the rooms hold walkable cells only, and two
\* cells of one room are linked by a chain of walkable cells that are grid
\* neighbours (the last cell of a row and the first of the next row are not).
C29_RoomsPartitionWalkable ==
    navPc = "filled" =>
        /\ \A idx \in WalkableCells : TimesInRooms(idx) = 1
        /\ \A r \in 1..Len(navRooms) : \A k \in 1..Len(navRooms[r]) :
              /\ navRooms[r][k] \in WalkableCells
              /\ \A j \in 1..Len(navRooms[r]) : navRooms[r][j] \in LinkedTo({navRooms[r][k]})

\* C30: with the four layer options given and accepted, CreateNavData is left
\* by no exception, and once it has returned True the layers Blocked, Walkable
\* and Rooms are there with one (index, code) entry for every cell of the grid.
C30_NavDataCompletes ==
    /\ navPc # "crashed"
    /\ navPc = "done" =>
          \A suffix \in {"Blocked", "Walkable", "Rooms"} :
              /\ NavPrefixed(suffix) \in DOMAIN layerDict
              /\ DOMAIN layerDict[NavPrefixed(suffix)] = 0..(layerTiles - 1)
              /\ InList(NavPrefixed(suffix), layerNames)

====
